---- MODULE Spec2Model ----
(***************************************************************************)
(* A model of ai-jsx: memoization (packages/ai-jsx/src/lib/memoize.tsx),   *)
(* the Anthropic chat model (lib/anthropic.tsx), the tool-use components   *)
(* (batteries/docs-components.tsx) and the streaming consumer of the       *)
(* Next.js example (unnamed/part_000).                                     *)
(*                                                                         *)
(* Several state machines share this module, each with its own variables,  *)
(* initial predicate and next-state relation; a machine leaves the         *)
(* variables of the others as they are before anything has run:            *)
(*   SpecMemoGenerator  memo(<async generator>): the buffering closure     *)
(*                      (sink, completed, nextPromise) and the consumers   *)
(*                      created by rendering the MemoizedGenerator element.*)
(*   SpecMemoElement    memo(<element>): the per-RenderContext cache of    *)
(*                      the wrapping element.                              *)
(*   SpecUseTools       UseTools: the try/catch around the function-call   *)
(*                      implementation.                                    *)
(*   SpecRenderStop     render(node, {stop}) with the stop predicates of   *)
(*                      UseToolsFunctionCall and AnthropicChatModel.       *)
(*   SpecContext        <Anthropic> and getContext(anthropicClientContext).*)
(*   SpecAnthropic      one execution of AnthropicChatModel and of the     *)
(*                      generator it embeds in its <AssistantMessage>.     *)
(*   SpecFunctionCall   UseToolsFunctionCall: the loop of model calls and  *)
(*                      tool calls (FairSpecFunctionCall: with fairness).  *)
(*   SpecInvokeTool     InvokeTool: parsing and running a tool choice.     *)
(*   SpecMemoPromise    memo(<promise>): the promise chained by .then.     *)
(*   SpecInspector      Inspector (unnamed/part_001): the recorded frames  *)
(*                      and the index chosen with the arrow keys.          *)
(*   SpecAIStream       AIStream and Defer: the listeners of the emitter   *)
(*                      and the promises they resolve (FairSpecAIStream:   *)
(*                      with fairness).                                    *)
(* FairSpecMemoGenerator is SpecMemoGenerator for producers that finish,   *)
(* with fairness.                                                          *)
(* JavaScript runs one job at a time, so an action is one synchronous run  *)
(* of code between two suspension points (await / yield).                  *)
(***************************************************************************)
EXTENDS Integers, Sequences, FiniteSets, TLC

VARIABLES
    memoizedId,      \* module-level counter `let memoizedId = 0`
    \* ---- memo(<async generator>) ----
    script,          \* what the underlying generator does: frames, ending, ret
    genCalls,        \* number of generator.next() calls issued so far
    genResults,      \* how each settled call ended, in call order
    genClosed,       \* generator.return() has been called on the underlying generator
    memoized,        \* memo(generator) has run: the closure exists
    sink,            \* const sink: Renderable[]
    completed,       \* let completed
    nextPromise,     \* let nextPromise (NoPromise, or the number of the call it wraps)
    pc,              \* per consumer: position of its MemoizedGenerator() body
    index,           \* per consumer: let index
    awaited,         \* per consumer: the promise it is suspended on
    observed,        \* per consumer: the values it has yielded to its caller
    \* ---- memo(<element>) ----
    renderKind,      \* what the wrapped component does when rendered
    contexts,        \* the RenderContexts created so far
    wrappers,        \* ids of the Memoized elements created so far
    memoizedValues,  \* per wrapper: the WeakMap RenderContext -> memoized Node
    evals,           \* per wrapper and context: invocations of renderable.render(ctx)
    failures,        \* per wrapper and context: invocations that failed
    returned,        \* per wrapper and context: outcomes handed to the renderer
    evalSerial,      \* total number of invocations of the wrapped component
    renderCount,     \* total number of renders of memoized elements
    memoCalls,       \* total number of memo(<element>) calls
    memoResult,      \* argument and return value of the latest memo(<element>) call
    heap,            \* the element objects: tag, props, render, frozen
    \* ---- UseTools ----
    fcScript,        \* what render(<UseToolsFunctionCall .../>) does: frames, outcome
    utPc,            \* position of the UseTools() body
    utPos,           \* frames of the delegated render consumed so far
    utYielded,       \* the values UseTools has yielded to its caller
    utResult,        \* the value UseTools returned
    utError,         \* the error UseTools threw
    \* ---- render(node, {stop}) ----
    rsTree,          \* the elements and texts under the rendered node, in document order
    rsCaller,        \* the component that called render with a stop predicate
    rsOut,           \* the render result so far: texts and elements, in position
    rsExpanded,      \* the elements whose component has been evaluated
    rsKept,          \* the elements left in place because stop(e) was true
    \* ---- <Anthropic> and the client context ----
    anProps,         \* per nesting level: the props of the <Anthropic> element there
    ctxStore,        \* the render contexts created so far: context key -> bound value
    anCtx,           \* per level: the context its <Anthropic> is rendered under (0: not reached)
    anState,         \* per level: "pending", "rendered" or "threw"
    coCtx,           \* per level: the context the chat model there is rendered under
    seen,            \* per level: what getContext(anthropicClientContext) returned there
    \* ---- renderStream(children) and AIStream ----
    stNode,          \* the rendered node: a sequence of texts and lazy producers
    stPos,           \* per child: how many of its values the renderer has taken
    stFin,           \* the children that have finished
    stCur,           \* per child: its current frame
    stResults,       \* the iterator results of the stream, in order: value, done
    shNext,          \* how many of them handleFrame has been given
    shPending,       \* a stream.next() of AIStream is outstanding
    shSeen,          \* the frames handleFrame has been given
    listeners,       \* the positions i with a once-listener on `value-${i}`
    deferred,        \* per position: the promise of its Defer element
    \* ---- AnthropicChatModel ----
    acProps,         \* props: whether a functionDefinitions entry is present
    acElements,      \* what render(props.children, {stop}) resolves to: texts and message tags
    acChildren,      \* the promise of that render: "pending", "resolved" or "rejected"
    acPc,            \* position of the AnthropicChatModel() body
    acYielded,       \* the values it has yielded to its caller
    acRenderCalls,   \* number of render(...) calls it has made
    acMessages,      \* the elements after filter and flatMap, in order
    acSettled,       \* per message: "pending", "fulfilled" or "rejected"
    acValues,        \* the array Promise.all resolves to
    acOutOfOrder,    \* some render completed before that of an earlier message
    acPrompt,        \* the parts of the prompt sent to the completion API
    acApiCalls,      \* number of calls of anthropic.completions.create
    acApiFailure,    \* the error that call threw, if it did
    acError,         \* the error AnthropicChatModel threw
    inResponse,      \* the completion events of the response, in order
    inPc,            \* position of the body of the inner generator
    inPos,           \* completion events consumed by the inner generator
    inYielded,       \* the values the inner generator has yielded
    inFirst,         \* let isFirstResponse
    inSoFar,         \* let resultSoFar
    \* ---- UseToolsFunctionCall ----
    ufcFallback,     \* props.fallback is given
    ufcPc,           \* position of the UseToolsFunctionCall() body
    ufcMessages,     \* const messages
    ufcRounds,       \* iterations of the do-loop that pushed a FunctionResponse
    ufcForwarded,    \* frames of the current model render passed on by yield*
    ufcRenderResult, \* const renderResult of the current iteration
    ufcResponse,     \* let response of the current iteration
    ufcYielded,      \* the elements it has yielded itself (lines 275 and 285)
    ufcSent,         \* the message list of each model call, in call order
    ufcLog,          \* what it did, in order: model calls, yields, tool invocations
    ufcResult,       \* the value it returned
    ufcError,        \* the error it threw
    ufcHeld,         \* the error thrown in the catch clause, held while finally runs
    \* ---- InvokeTool ----
    itTools,         \* props.tools: the names it has an entry for
    itOutput,        \* what render(props.toolChoice) resolves to
    itRendered,      \* render(props.toolChoice) has resolved
    itPc,            \* position of the InvokeTool() body
    itInvoked,       \* the tools whose func has been called, in order
    itResult,        \* the value it returned
    itError,         \* the error it threw
    \* ---- memo(<promise>) ----
    mpOutcome,       \* how the promise handed to memo settles: state and value
    mpSource,        \* that promise is "pending" or "settled"
    mpMemoized,      \* memo(promise) has run
    mpElementId,     \* the id of the MemoizedPromise element
    mpChains,        \* the promises made by .then(memo): state and value
    mpThenCalls,     \* invocations of memo as the then-callback
    mpAwaited,       \* per render: the promise MemoizedPromise() returned
    mpSeen,          \* per render: the outcome its awaiter observed
    \* ---- Inspector (unnamed/part_001) ----
    debugTreeSteps,  \* useList: the debug-tree frames recorded so far
    debugTreeFrameIndex, \* useState<number | null>: the frame chosen with the arrow keys
    debugTreeStreamIsDone, \* useState: the debug-tree stream has ended
    componentToInspect, \* the prop: the node showInspector was given
    effectRan,       \* the effect of lines 22-40 has run
    innerMemoized    \* how many values the rendering has passed to memo

genVars == <<script, genCalls, genResults, genClosed, memoized, sink, completed,
             nextPromise, pc, index, awaited, observed>>
elemVars == <<renderKind, contexts, wrappers, memoizedValues, evals, failures,
              returned, evalSerial, renderCount, memoCalls, memoResult, heap>>
toolVars == <<fcScript, utPc, utPos, utYielded, utResult, utError>>
stopVars == <<rsTree, rsCaller, rsOut, rsExpanded, rsKept>>
ctxVars == <<anProps, ctxStore, anCtx, anState, coCtx, seen>>
streamVars == <<stNode, stPos, stFin, stCur, stResults, shNext, shPending, shSeen,
      listeners, deferred>>
chatVars == <<acProps, acElements, acChildren, acPc, acYielded, acRenderCalls, acMessages, acSettled,
              acValues, acOutOfOrder, acPrompt, acApiCalls, acApiFailure, acError,
              inResponse, inPc, inPos, inYielded, inFirst, inSoFar>>
loopVars == <<ufcFallback, ufcPc, ufcMessages, ufcRounds, ufcForwarded, ufcRenderResult,
      ufcResponse, ufcYielded, ufcSent, ufcLog, ufcResult, ufcError, ufcHeld>>
invokeVars == <<itTools, itOutput, itRendered, itPc, itInvoked, itResult, itError>>
promiseVars == <<mpOutcome, mpSource, mpMemoized, mpElementId,
      mpChains, mpThenCalls, mpAwaited, mpSeen>>
inspVars == <<debugTreeSteps, debugTreeFrameIndex, debugTreeStreamIsDone,
      componentToInspect, effectRan, innerMemoized>>
vars == <<memoizedId, genVars, elemVars, toolVars, stopVars, ctxVars, streamVars, chatVars, loopVars, invokeVars, promiseVars, inspVars>>

\* What the actions of one state machine leave alone.
OutsideGen == <<elemVars, toolVars, stopVars, ctxVars, streamVars, chatVars, loopVars, invokeVars, promiseVars, inspVars>>
OutsideElem == <<genVars, toolVars, stopVars, ctxVars, streamVars, chatVars, loopVars, invokeVars, promiseVars, inspVars>>
OutsideTool == <<memoizedId, genVars, elemVars, stopVars, ctxVars, streamVars, chatVars, loopVars, invokeVars, promiseVars, inspVars>>
OutsideStop == <<memoizedId, genVars, elemVars, toolVars, ctxVars, streamVars, chatVars, loopVars, invokeVars, promiseVars, inspVars>>
OutsideCtx == <<memoizedId, genVars, elemVars, toolVars, stopVars, streamVars, chatVars, loopVars, invokeVars, promiseVars, inspVars>>
OutsideStream == <<memoizedId, genVars, elemVars, toolVars, stopVars, ctxVars, chatVars, loopVars, invokeVars, promiseVars, inspVars>>
OutsideChat == <<memoizedId, genVars, elemVars, toolVars, stopVars, ctxVars, streamVars, loopVars, invokeVars, promiseVars, inspVars>>
OutsideLoop == <<memoizedId, genVars, elemVars, toolVars,
      stopVars, ctxVars, streamVars, chatVars, invokeVars, promiseVars, inspVars>>
OutsideInvoke == <<memoizedId, genVars, elemVars, toolVars,
      stopVars, ctxVars, streamVars, chatVars, loopVars, promiseVars, inspVars>>
OutsidePromise == <<genVars, elemVars, toolVars, stopVars,
      ctxVars, streamVars, chatVars, loopVars, invokeVars, inspVars>>
OutsideInspector == <<memoizedId, genVars, elemVars, toolVars, stopVars,
      ctxVars, streamVars, chatVars, loopVars, invokeVars, promiseVars>>

(***************************************************************************)
(* Bounds of the model.                                                    *)
(***************************************************************************)
MaxFrames == 2
NumConsumers == 2
MaxContexts == 2
MaxRenders == 3
MaxMemoCalls == 2
MaxPositions == 2

(***************************************************************************)
(* Values.                                                                 *)
(***************************************************************************)
NoPromise == 0
Undefined == "undefined"
FrameValues == {"a", "b"}
ReturnValues == {Undefined, "r"}
Consumers == 1..NumConsumers

RECURSIVE SeqsUpTo(_)
SeqsUpTo(n) ==
    IF n = 0 THEN {<<>>}
    ELSE LET shorter == SeqsUpTo(n - 1)
         IN shorter \cup {Append(s, v) : s \in {t \in shorter : Len(t) = n - 1}, v \in FrameValues}

\* The behaviours of the async generator handed to memo: it yields `frames`
\* one per next(), then either returns `ret` or throws.
Scripts ==
    {[frames |-> f, ending |-> "return", ret |-> r] : f \in SeqsUpTo(MaxFrames), r \in ReturnValues}
    \cup {[frames |-> f, ending |-> "throw", ret |-> Undefined] : f \in SeqsUpTo(MaxFrames)}

IsPrefix(s, t) == Len(s) <= Len(t) /\ SubSeq(t, 1, Len(s)) = s

(***************************************************************************)
(* The underlying async generator (the `generator` captured at line 54).   *)
(* Its next() calls are queued and settle in call order.                   *)
(***************************************************************************)
\* The IteratorResult (or rejection) of the k-th next() call.
CallResult(k) ==
    IF genClosed THEN [kind |-> "done", value |-> Undefined]
    ELSE IF k <= Len(script.frames) THEN [kind |-> "value", value |-> script.frames[k]]
    ELSE IF k = Len(script.frames) + 1
         THEN (IF script.ending = "throw"
               THEN [kind |-> "rejected", value |-> Undefined]
               ELSE [kind |-> "done", value |-> script.ret])
    ELSE [kind |-> "done", value |-> Undefined]

PromiseSettled(p) == p # NoPromise /\ p <= Len(genResults)
PromiseRejected(p) == PromiseSettled(p) /\ genResults[p] = "rejected"

(***************************************************************************)
(* memo of a leaf: `typeof renderable !== 'object' || renderable === null`.*)
(***************************************************************************)
MemoLeaf(v) == v

\* Variant: memo(generator) prefetches the first frame when it is called.
MemoGeneratorEager ==
    /\ ~memoized
    /\ memoized' = TRUE
    /\ sink' = <<>>
    /\ completed' = FALSE
    /\ genCalls' = genCalls + 1
    /\ nextPromise' = genCalls + 1
    /\ memoizedId' = memoizedId + 1
    /\ UNCHANGED <<script, genResults, genClosed, pc, index, awaited, observed>>
    /\ UNCHANGED OutsideGen

(***************************************************************************)
(* memo(<async generator>): creates the closure state and returns the      *)
(* <MemoizedGenerator id={++memoizedId}> element.  Nothing is pulled.      *)
(***************************************************************************)
MemoGenerator ==
    /\ ~memoized
    /\ memoized' = TRUE
    /\ sink' = <<>>
    /\ completed' = FALSE
    /\ nextPromise' = NoPromise
    /\ memoizedId' = memoizedId + 1
    /\ UNCHANGED <<script, genCalls, genResults, genClosed, pc, index, awaited, observed>>
    /\ UNCHANGED OutsideGen

\* Rendering the MemoizedGenerator element calls MemoizedGenerator(): a new
\* async generator object whose body has not started (`let index = 0` runs
\* on its first next(), before anything else).
RenderMemoizedGenerator(c) ==
    /\ memoized
    /\ pc[c] = "absent"
    /\ pc' = [pc EXCEPT ![c] = "start"]
    /\ index' = [index EXCEPT ![c] = 0]
    /\ UNCHANGED <<memoizedId, script, genCalls, genResults, genClosed, memoized, sink,
                   completed, nextPromise, awaited, observed>>
    /\ UNCHANGED OutsideGen

\* Variant: every caught-up consumer issues its own generator.next().
LoopBodyUnshared(c) ==
    IF index[c] < Len(sink)
    THEN /\ observed' = [observed EXCEPT ![c] = Append(@, sink[index[c] + 1])]
         /\ index' = [index EXCEPT ![c] = @ + 1]
         /\ pc' = [pc EXCEPT ![c] = "yielded"]
         /\ UNCHANGED <<awaited, nextPromise, genCalls>>
    ELSE IF completed
    THEN /\ pc' = [pc EXCEPT ![c] = "done"]
         /\ UNCHANGED <<index, observed, awaited, nextPromise, genCalls>>
    ELSE /\ genCalls' = genCalls + 1
         /\ nextPromise' = genCalls + 1
         /\ awaited' = [awaited EXCEPT ![c] = genCalls + 1]
         /\ pc' = [pc EXCEPT ![c] = "awaiting"]
         /\ UNCHANGED <<index, observed>>

\* Variant: `completed` is tested before the buffer.
LoopBodyCompletedFirst(c) ==
    IF completed
    THEN /\ pc' = [pc EXCEPT ![c] = "done"]
         /\ UNCHANGED <<index, observed, awaited, nextPromise, genCalls>>
    ELSE IF index[c] < Len(sink)
    THEN /\ observed' = [observed EXCEPT ![c] = Append(@, sink[index[c] + 1])]
         /\ index' = [index EXCEPT ![c] = @ + 1]
         /\ pc' = [pc EXCEPT ![c] = "yielded"]
         /\ UNCHANGED <<awaited, nextPromise, genCalls>>
    ELSE IF nextPromise = NoPromise
    THEN /\ genCalls' = genCalls + 1
         /\ nextPromise' = genCalls + 1
         /\ awaited' = [awaited EXCEPT ![c] = genCalls + 1]
         /\ pc' = [pc EXCEPT ![c] = "awaiting"]
         /\ UNCHANGED <<index, observed>>
    ELSE /\ awaited' = [awaited EXCEPT ![c] = nextPromise]
         /\ pc' = [pc EXCEPT ![c] = "awaiting"]
         /\ UNCHANGED <<index, observed, nextPromise, genCalls>>

\* One run of the `while (true)` body from its top to the next suspension:
\* a yield, the break, or `await nextPromise`.
LoopBody(c) ==
    IF index[c] < Len(sink)
    THEN /\ observed' = [observed EXCEPT ![c] = Append(@, sink[index[c] + 1])]
         /\ index' = [index EXCEPT ![c] = @ + 1]
         /\ pc' = [pc EXCEPT ![c] = "yielded"]
         /\ UNCHANGED <<awaited, nextPromise, genCalls>>
    ELSE IF completed
    THEN /\ pc' = [pc EXCEPT ![c] = "done"]
         /\ UNCHANGED <<index, observed, awaited, nextPromise, genCalls>>
    ELSE IF nextPromise = NoPromise
    THEN /\ genCalls' = genCalls + 1
         /\ nextPromise' = genCalls + 1
         /\ awaited' = [awaited EXCEPT ![c] = genCalls + 1]
         /\ pc' = [pc EXCEPT ![c] = "awaiting"]
         /\ UNCHANGED <<index, observed>>
    ELSE /\ awaited' = [awaited EXCEPT ![c] = nextPromise]
         /\ pc' = [pc EXCEPT ![c] = "awaiting"]
         /\ UNCHANGED <<index, observed, nextPromise, genCalls>>

\* The consumer's caller calls next(): the body runs from its start, or from
\* the yield it was suspended at (`continue`).
ConsumerNext(c) ==
    /\ pc[c] \in {"start", "yielded"}
    /\ LoopBody(c)
    /\ UNCHANGED <<memoizedId, script, genResults, genClosed, memoized, sink, completed>>
    /\ UNCHANGED OutsideGen

\* `await nextPromise` ends: a rejection is thrown out of the consumer, a
\* fulfilment goes round the loop.
ConsumerResume(c) ==
    /\ pc[c] = "awaiting"
    /\ PromiseSettled(awaited[c])
    /\ IF PromiseRejected(awaited[c])
       THEN /\ pc' = [pc EXCEPT ![c] = "failed"]
            /\ UNCHANGED <<index, observed, awaited, nextPromise, genCalls>>
       ELSE LoopBody(c)
    /\ UNCHANGED <<memoizedId, script, genResults, genClosed, memoized, sink, completed>>
    /\ UNCHANGED OutsideGen

\* Variant: the callback does not record completion.
ThenCallbackForgetsCompleted(result) ==
    /\ IF result.kind = "done"
       THEN UNCHANGED <<sink, completed>>
       ELSE sink' = Append(sink, MemoLeaf(result.value)) /\ UNCHANGED completed
    /\ nextPromise' = NoPromise

\* The callback given to generator.next().then(...).
ThenCallback(result) ==
    /\ IF result.kind = "done"
       THEN completed' = TRUE /\ UNCHANGED sink
       ELSE sink' = Append(sink, MemoLeaf(result.value)) /\ UNCHANGED completed
    /\ nextPromise' = NoPromise

\* The oldest outstanding generator.next() settles.  A rejection skips the
\* callback, so nextPromise keeps the rejected promise.
GeneratorSettle ==
    /\ Len(genResults) < genCalls
    /\ LET result == CallResult(Len(genResults) + 1)
       IN /\ genResults' = Append(genResults, result.kind)
          /\ IF result.kind = "rejected"
             THEN UNCHANGED <<sink, completed, nextPromise>>
             ELSE ThenCallback(result)
    /\ UNCHANGED <<memoizedId, script, genCalls, genClosed, memoized, pc, index, awaited, observed>>
    /\ UNCHANGED OutsideGen

\* Variant: a consumer that stops early closes the underlying generator.
ConsumerReturnClosing(c) ==
    /\ pc[c] \in {"start", "yielded"}
    /\ pc' = [pc EXCEPT ![c] = "returned"]
    /\ genClosed' = TRUE
    /\ UNCHANGED <<memoizedId, script, genCalls, genResults, memoized, sink,
                   completed, nextPromise, index, awaited, observed>>
    /\ UNCHANGED OutsideGen

\* The consumer's caller stops early: return() on a consumer that is not
\* running ends that consumer.  The closure keeps no record of it.
ConsumerReturn(c) ==
    /\ pc[c] \in {"start", "yielded"}
    /\ pc' = [pc EXCEPT ![c] = "returned"]
    /\ UNCHANGED <<memoizedId, script, genCalls, genResults, genClosed, memoized, sink,
                   completed, nextPromise, index, awaited, observed>>
    /\ UNCHANGED OutsideGen

\* The value a consumer's generator returns when it leaves the loop by `break`.
MemoizedGeneratorReturn == Undefined

\* The other state machines of this module, before they start.
ToolIdle ==
    /\ fcScript = [frames |-> <<>>, ending |-> "return",
                   error |-> [class |-> "none", code |-> "none", kind |-> "none"]]
    /\ utPc = "start"
    /\ utPos = 0
    /\ utYielded = <<>>
    /\ utResult = Undefined
    /\ utError = [class |-> "none", code |-> "none", kind |-> "none"]

StopIdle ==
    /\ rsTree = <<>>
    /\ rsCaller = "none"
    /\ rsOut = <<>>
    /\ rsExpanded = {}
    /\ rsKept = {}

CtxIdle ==
    /\ anProps = <<>>
    /\ ctxStore = <<>>
    /\ anCtx = <<>>
    /\ anState = <<>>
    /\ coCtx = <<>>
    /\ seen = <<>>

\* part_000 line 110.
maxIndex == 10000

\* The positions AIStream creates a Defer element for (line 128), as far as
\* the model follows them.
Positions == {i \in 0..(MaxPositions - 1) : i < maxIndex}

\* The promise of a Defer element that has not been called yet.
NotCalled == [state |-> "notCalled", value |-> "", resolves |-> 0]

StreamIdle ==
    /\ stNode = <<>>
    /\ stPos = <<>>
    /\ stFin = {}
    /\ stCur = <<>>
    /\ stResults = <<>>
    /\ shNext = 0
    /\ shPending = FALSE
    /\ shSeen = <<>>
    /\ listeners = {}
    /\ deferred = [i \in Positions |-> NotCalled]

ChatIdle ==
    /\ acProps = "absent"
    /\ acElements = <<>>
    /\ acChildren = "pending"
    /\ acPc = "start"
    /\ acYielded = <<>>
    /\ acRenderCalls = 0
    /\ acMessages = <<>>
    /\ acSettled = <<>>
    /\ acValues = <<>>
    /\ acOutOfOrder = FALSE
    /\ acPrompt = <<>>
    /\ acApiCalls = 0
    /\ acApiFailure = [class |-> "none", code |-> "none", kind |-> "none"]
    /\ acError = [class |-> "none", code |-> "none", kind |-> "none"]
    /\ inResponse = <<>>
    /\ inPc = "absent"
    /\ inPos = 0
    /\ inYielded = <<>>
    /\ inFirst = TRUE
    /\ inSoFar = <<>>

LoopIdle ==
    /\ ufcFallback = FALSE
    /\ ufcPc = "start"
    /\ ufcMessages = <<>>
    /\ ufcRounds = 0
    /\ ufcForwarded = 0
    /\ ufcRenderResult = <<>>
    /\ ufcResponse = ""
    /\ ufcYielded = <<>>
    /\ ufcSent = <<>>
    /\ ufcLog = <<>>
    /\ ufcResult = <<>>
    /\ ufcError = [class |-> "none", code |-> "none", kind |-> "none"]
    /\ ufcHeld = [class |-> "none", code |-> "none", kind |-> "none"]

InvokeIdle ==
    /\ itTools = {}
    /\ itOutput = [kind |-> "null", nameOfTool |-> "", parameters |-> FALSE,
                   responseToUser |-> FALSE]
    /\ itRendered = FALSE
    /\ itPc = "start"
    /\ itInvoked = <<>>
    /\ itResult = "none"
    /\ itError = [class |-> "none", code |-> "none", kind |-> "none"]

PromiseIdle ==
    /\ mpOutcome = [state |-> "fulfilled", value |-> [kind |-> "leaf", id |-> 0]]
    /\ mpSource = "pending"
    /\ mpMemoized = FALSE
    /\ mpElementId = 0
    /\ mpChains = <<>>
    /\ mpThenCalls = 0
    /\ mpAwaited = <<>>
    /\ mpSeen = <<>>

InspectorIdle ==
    /\ debugTreeSteps = <<>>
    /\ debugTreeFrameIndex = [isNull |-> TRUE, n |-> 0]
    /\ debugTreeStreamIsDone = FALSE
    /\ componentToInspect = [kind |-> "leaf", items |-> 0, inner |-> <<>>]
    /\ effectRan = FALSE
    /\ innerMemoized = 0

OutsideMemoIdle == ToolIdle /\ StopIdle /\ CtxIdle /\ StreamIdle /\ ChatIdle /\ LoopIdle /\ InvokeIdle /\ PromiseIdle /\ InspectorIdle

ElemIdle ==
    /\ renderKind = "returns"
    /\ contexts = {}
    /\ wrappers = {}
    /\ memoizedValues = <<>>
    /\ evals = <<>>
    /\ failures = <<>>
    /\ returned = <<>>
    /\ evalSerial = 0
    /\ renderCount = 0
    /\ memoCalls = 0
    /\ memoResult = [arg |-> 0, ret |-> 0]  \* no call yet
    /\ heap = <<>>

GenIdle ==
    /\ genCalls = 0
    /\ genResults = <<>>
    /\ genClosed = FALSE
    /\ memoized = FALSE
    /\ sink = <<>>
    /\ completed = FALSE
    /\ nextPromise = NoPromise
    /\ pc = [c \in Consumers |-> "absent"]
    /\ index = [c \in Consumers |-> 0]
    /\ awaited = [c \in Consumers |-> NoPromise]
    /\ observed = [c \in Consumers |-> <<>>]

InitMemoGenerator ==
    /\ memoizedId = 0
    /\ script \in Scripts
    /\ GenIdle
    /\ ElemIdle
    /\ OutsideMemoIdle

NextMemoGenerator ==
    \/ MemoGenerator
    \/ \E c \in Consumers : RenderMemoizedGenerator(c)
    \/ \E c \in Consumers : ConsumerNext(c)
    \/ \E c \in Consumers : ConsumerResume(c)
    \/ GeneratorSettle
    \/ \E c \in Consumers : ConsumerReturn(c)

SpecMemoGenerator == InitMemoGenerator /\ [][NextMemoGenerator]_vars

(***************************************************************************)
(* The renderer's treatment of a lazy producer, from the specification of  *)
(* the streaming renderer: each yielded value becomes the current frame,   *)
(* the final return value, if any, replaces the last frame, and a producer *)
(* that yields nothing behaves as if it had yielded the empty string.      *)
(***************************************************************************)
FinalFrame(frames, ret) ==
    IF ret # Undefined THEN ret
    ELSE IF frames = <<>> THEN ""
    ELSE frames[Len(frames)]

\* The closure state shared by all consumers, with the underlying generator's.
GenShared == <<sink, completed, nextPromise, genCalls, genResults, genClosed>>

Stops(c) == pc[c] # "returned" /\ pc'[c] = "returned"

(***************************************************************************)
(* C2.  Any two consumers of one memoized producer observe the same frames *)
(* in the same order: what a consumer has received is always the first     *)
(* index frames of the shared buffer, the buffer is a prefix of what the   *)
(* underlying producer yields, and a consumer that has ended (normally or  *)
(* with the producer's failure) has received the whole buffer.  A late     *)
(* joiner therefore gets the buffered prefix before anything newer.        *)
(***************************************************************************)
C2_SameFramesSameOrder ==
    /\ IsPrefix(sink, script.frames)
    /\ \A c \in Consumers :
        /\ Len(observed[c]) = index[c]
        /\ IsPrefix(observed[c], sink)
        /\ pc[c] \in {"done", "failed"} => observed[c] = sink
    /\ \A c1, c2 \in Consumers :
        IsPrefix(observed[c1], observed[c2]) \/ IsPrefix(observed[c2], observed[c1])

\* One consumer has finished; another is still replaying the buffer after
\* the producer completed.
C2_Witness ==
    \E c1, c2 \in Consumers :
        /\ c1 # c2
        /\ completed
        /\ Len(sink) >= 2
        /\ pc[c1] = "done"
        /\ pc[c2] = "yielded"
        /\ Len(observed[c2]) = 1

(***************************************************************************)
(* C3.  At most one call of the underlying next() is outstanding, and every*)
(* consumer suspended on an unsettled promise is suspended on that one call*)
(* (the one nextPromise holds).                                            *)
(***************************************************************************)
C3_OneOutstandingNext ==
    /\ genCalls - Len(genResults) <= 1
    /\ \A c \in Consumers :
        (pc[c] = "awaiting" /\ ~PromiseSettled(awaited[c]))
            => (awaited[c] = nextPromise /\ awaited[c] = genCalls)

\* Two consumers wait on the same pending call.
C3_Witness ==
    \E c1, c2 \in Consumers :
        /\ c1 # c2
        /\ pc[c1] = "awaiting" /\ pc[c2] = "awaiting"
        /\ awaited[c1] = awaited[c2]
        /\ ~PromiseSettled(awaited[c1])
        /\ genCalls = 2

(***************************************************************************)
(* C4 as stated: when every consumer has consumed the producer to the end, *)
(* next() has been called as many times as the producer has frames.        *)
(***************************************************************************)
C4_CallsEqualFrames ==
    (\A c \in Consumers : pc[c] = "done") => genCalls = Len(script.frames)

(***************************************************************************)
(* C4 amended.  However many consumers there are, next() is never called   *)
(* more than once per frame plus once for the result that reports the end, *)
(* and as soon as one consumer has consumed the producer to the end exactly*)
(* that many calls have been made.                                         *)
(***************************************************************************)
C4_CallsEqualFramesPlusOne ==
    /\ genCalls <= Len(script.frames) + 1
    /\ (\E c \in Consumers : pc[c] = "done") => genCalls = Len(script.frames) + 1

\* Every consumer has consumed a producer of two frames to the end.
C4_Witness ==
    /\ Len(script.frames) >= 2
    /\ \A c \in Consumers : pc[c] = "done" /\ Len(observed[c]) = Len(script.frames)

(***************************************************************************)
(* C5.  Rendering memo(n) to completion gives the same final result as     *)
(* rendering n, here for n a lazy producer that yields at least one frame: *)
(* the final frame of a finished consumer equals the final frame of the    *)
(* producer itself.                                                        *)
(***************************************************************************)
C5_MemoSameFinalResult ==
    \A c \in Consumers :
        (pc[c] = "done" /\ observed[c] # <<>>)
            => FinalFrame(observed[c], MemoizedGeneratorReturn)
                   = FinalFrame(script.frames, script.ret)

(***************************************************************************)
(* C9 as stated: the memoized producer tracks its consumers, so a consumer *)
(* that stops early is recorded in the producer's state (its consumer count*)
(* is decremented).                                                        *)
(***************************************************************************)
C9_StopIsCounted ==
    [][\A c \in Consumers : Stops(c) => GenShared' # GenShared]_vars

(***************************************************************************)
(* C9 amended.  The memoized producer keeps no consumer count: a consumer  *)
(* that stops early changes nothing but its own position, the underlying   *)
(* iterator is never closed, and a consumer that reaches the end has       *)
(* received every frame whether or not others stopped.                     *)
(***************************************************************************)
C9_StopTouchesNothingShared ==
    [][/\ genClosed' = FALSE
       /\ \A c \in Consumers :
            Stops(c) =>
                /\ GenShared' = GenShared
                /\ \A d \in Consumers \ {c} :
                    <<pc[d], index[d], awaited[d], observed[d]>>'
                        = <<pc[d], index[d], awaited[d], observed[d]>>
       /\ \A c \in Consumers : pc'[c] = "done" => observed'[c] = script.frames]_vars

\* One consumer stopped early, another went on to the end.
C9_Witness ==
    \E c1, c2 \in Consumers :
        /\ pc[c1] = "returned"
        /\ pc[c2] = "done"
        /\ Len(observed[c1]) < Len(observed[c2])
        /\ ~genClosed

(***************************************************************************)
(* C10.  The underlying producer is pulled only on demand: a step that     *)
(* calls next() is a step of a consumer whose body is running for its      *)
(* caller, that has received the whole buffer, with the producer not       *)
(* completed and no call pending; it makes exactly one call.  Creating the *)
(* memoized node, rendering it, settling and stopping make no call.        *)
(***************************************************************************)
C10_PullOnlyOnDemand ==
    [][genCalls' # genCalls =>
        /\ genCalls' = genCalls + 1
        /\ memoized
        /\ ~completed
        /\ nextPromise = NoPromise
        /\ \E c \in Consumers :
            /\ pc[c] \in {"start", "yielded", "awaiting"}
            /\ pc'[c] = "awaiting"
            /\ awaited'[c] = genCalls'
            /\ index[c] = Len(sink)
            /\ \A d \in Consumers \ {c} : pc'[d] = pc[d]]_vars

\* A pulled consumer waits on the first call while another consumer, which
\* was rendered but never pulled, has caused none.
C10_Witness ==
    \E c1, c2 \in Consumers :
        /\ pc[c1] = "awaiting"
        /\ pc[c2] = "start"
        /\ genCalls = 1

(***************************************************************************)
(* memo(<element>).  Orig is the element handed to memo that is not itself *)
(* memoized; Memoized elements are named by the id memo gave them.         *)
(***************************************************************************)
Orig == 0
AllContexts == 1..MaxContexts
RenderKinds == {"returns", "throws", "rejects"}

\* `isMemoizedSymbol in renderable.props`
IsMemoized(x) == x \in wrappers

\* memoizedValues.has(ctx) / memoizedValues.get(ctx) of wrapper w
Has(w, c) == c \in DOMAIN memoizedValues[w]
Get(w, c) == memoizedValues[w][c]

\* The element handed to memo, as an object: its tag, the names of its
\* props, its render function, and whether it is frozen.
OrigElement(frozen) ==
    [tag |-> "Component", props |-> {"children"}, render |-> "render", frozen |-> frozen]

NewElementInPlace(h, x, w) ==
    [k \in DOMAIN h \cup {w} |->
        IF k \in {x, w} THEN [h[x] EXCEPT !.render = "memoized", !.frozen = TRUE] ELSE h[k]]

\* Lines 25-37: newElement of the Memoized element w is a copy of
\* renderable x with render replaced, and is frozen; x is only read.
NewElement(h, x, w) ==
    [k \in DOMAIN h \cup {w} |->
        IF k = w THEN [h[x] EXCEPT !.render = "memoized", !.frozen = TRUE] ELSE h[k]]

\* createRenderContext(): a RenderContext distinct from all earlier ones.
CreateRenderContext ==
    /\ Cardinality(contexts) < MaxContexts
    /\ contexts' = contexts \cup {Cardinality(contexts) + 1}
    /\ UNCHANGED <<renderKind, wrappers, memoizedValues, evals, failures, returned,
                   evalSerial, renderCount, memoCalls, memoResult, heap>>
    /\ UNCHANGED <<memoizedId, OutsideElem>>

\* Variant: the isMemoizedSymbol test is missing, every call wraps again.
MemoElementAlwaysWraps(x) ==
    /\ memoCalls < MaxMemoCalls
    /\ memoCalls' = memoCalls + 1
    /\ memoizedId' = memoizedId + 1
    /\ wrappers' = wrappers \cup {memoizedId + 1}
    /\ memoizedValues' = [w \in wrappers' |-> IF w \in wrappers THEN memoizedValues[w] ELSE <<>>]
    /\ evals' = [w \in wrappers' |-> IF w \in wrappers THEN evals[w] ELSE [c \in AllContexts |-> 0]]
    /\ failures' = [w \in wrappers' |-> IF w \in wrappers THEN failures[w] ELSE [c \in AllContexts |-> 0]]
    /\ returned' = [w \in wrappers' |-> IF w \in wrappers THEN returned[w] ELSE [c \in AllContexts |-> {}]]
    /\ memoResult' = [arg |-> x, ret |-> memoizedId + 1]
    /\ heap' = NewElement(heap, x, memoizedId + 1)
    /\ UNCHANGED <<renderKind, contexts, evalSerial, renderCount>>
    /\ UNCHANGED OutsideElem

\* memo(x) for an element x: an already memoized element is returned as it
\* is; otherwise a new WeakMap, the frozen newElement and the
\* <Memoized id={++memoizedId}> element around it are created.
MemoElement(x) ==
    /\ memoCalls < MaxMemoCalls
    /\ memoCalls' = memoCalls + 1
    /\ IF IsMemoized(x)
       THEN /\ memoResult' = [arg |-> x, ret |-> x]
            /\ UNCHANGED <<memoizedId, wrappers, memoizedValues, evals, failures, returned, heap>>
       ELSE /\ memoizedId' = memoizedId + 1
            /\ wrappers' = wrappers \cup {memoizedId + 1}
            /\ memoizedValues' = [w \in wrappers' |-> IF w \in wrappers THEN memoizedValues[w] ELSE <<>>]
            /\ evals' = [w \in wrappers' |-> IF w \in wrappers THEN evals[w] ELSE [c \in AllContexts |-> 0]]
            /\ failures' = [w \in wrappers' |-> IF w \in wrappers THEN failures[w] ELSE [c \in AllContexts |-> 0]]
            /\ returned' = [w \in wrappers' |-> IF w \in wrappers THEN returned[w] ELSE [c \in AllContexts |-> {}]]
            /\ memoResult' = [arg |-> x, ret |-> memoizedId + 1]
            /\ heap' = NewElement(heap, x, memoizedId + 1)
    /\ UNCHANGED <<renderKind, contexts, evalSerial, renderCount>>
    /\ UNCHANGED OutsideElem

\* What renderable.render(ctx) gives on its n-th invocation overall: the
\* component returns a leaf, throws, or (an async component) returns a
\* promise that rejects.  Results differ from one invocation to the next and
\* depend on the context.
RenderResult(c, n) ==
    [ctx |-> c, serial |-> n,
     kind |-> CASE renderKind = "returns" -> "leaf"
              [] renderKind = "throws" -> "thrown"
              [] OTHER -> "rejectedPromise"]

\* memo(<promise>) wraps the promise in <MemoizedPromise id={++memoizedId}>;
\* memo of a leaf returns it.
MemoOfResult(r) == IF r.kind = "leaf" THEN MemoLeaf(r) ELSE r
IdsUsedBy(r) == IF r.kind = "rejectedPromise" THEN 1 ELSE 0

\* The WeakMap of wrapper w after set(c, v).
SetValue(w, c, v) ==
    [memoizedValues EXCEPT ![w] =
        [k \in DOMAIN @ \cup {c} |-> IF k = c THEN v ELSE @[k]]]

\* The renderer renders Memoized element w under context c: Memoized()
\* returns newElement, whose render(ctx) is the function of lines 27-35.
\* A throw of renderable.render(ctx) leaves the function before set().
RenderMemoized(w, c) ==
    /\ renderCount < MaxRenders
    /\ renderCount' = renderCount + 1
    /\ IF Has(w, c)
       THEN /\ returned' = [returned EXCEPT ![w][c] = @ \cup {Get(w, c)}]
            /\ UNCHANGED <<memoizedId, memoizedValues, evals, failures, evalSerial>>
       ELSE LET r == RenderResult(c, evalSerial + 1)
            IN /\ evalSerial' = evalSerial + 1
               /\ evals' = [evals EXCEPT ![w][c] = @ + 1]
               /\ returned' = [returned EXCEPT ![w][c] = @ \cup {r}]
               /\ IF r.kind = "thrown"
                  THEN /\ failures' = [failures EXCEPT ![w][c] = @ + 1]
                       /\ UNCHANGED <<memoizedId, memoizedValues>>
                  ELSE /\ memoizedId' = memoizedId + IdsUsedBy(r)
                       /\ memoizedValues' = SetValue(w, c, MemoOfResult(r))
                       /\ failures' = [failures EXCEPT ![w][c] =
                                          @ + (IF r.kind = "rejectedPromise" THEN 1 ELSE 0)]
    /\ UNCHANGED <<renderKind, contexts, wrappers, memoCalls, memoResult, heap>>
    /\ UNCHANGED OutsideElem

InitMemoElement ==
    /\ memoizedId = 0
    /\ script = [frames |-> <<>>, ending |-> "return", ret |-> Undefined]
    /\ GenIdle
    /\ OutsideMemoIdle
    /\ renderKind \in RenderKinds
    /\ contexts = {}
    /\ wrappers = {}
    /\ memoizedValues = <<>>
    /\ evals = <<>>
    /\ failures = <<>>
    /\ returned = <<>>
    /\ evalSerial = 0
    /\ renderCount = 0
    /\ memoCalls = 0
    /\ memoResult = [arg |-> Orig, ret |-> Orig]
    /\ heap \in {[e \in {Orig} |-> OrigElement(frozen)] : frozen \in BOOLEAN}

NextMemoElement ==
    \/ CreateRenderContext
    \/ \E x \in {Orig} \cup wrappers : MemoElement(x)
    \/ \E w \in wrappers, c \in contexts : RenderMemoized(w, c)

SpecMemoElement == InitMemoElement /\ [][NextMemoElement]_vars

(***************************************************************************)
(* C1.  For a memoized element and a render context, the underlying        *)
(* render is invoked at most once however often the element is rendered    *)
(* under that context, and every render under it hands out the one stored  *)
(* result.                                                                 *)
(***************************************************************************)
C1_RenderAtMostOnce ==
    \A w \in wrappers, c \in contexts :
        /\ evals[w][c] <= 1
        /\ Cardinality(returned[w][c]) <= 1

(***************************************************************************)
(* C6.  Once the underlying evaluation of a memoized node has failed in a  *)
(* context, the underlying work is not invoked again in that context and   *)
(* later observations see that same failure.                               *)
(***************************************************************************)
C6_FailureIsCached ==
    [][\A w \in wrappers, c \in contexts :
        failures[w][c] > 0
            => (evals'[w][c] = evals[w][c] /\ returned'[w][c] = returned[w][c])]_vars

(***************************************************************************)
(* C7.  Memoization is scoped per render context: a memoized element       *)
(* evaluates its underlying render once under each context it is rendered  *)
(* under, however often it is rendered there, and what is stored for, and  *)
(* handed out under, a context was produced by an evaluation under that    *)
(* very context.                                                           *)
(***************************************************************************)
C7_ScopedPerContext ==
    \A w \in wrappers, c \in contexts :
        /\ Has(w, c) => Get(w, c).ctx = c
        /\ \A v \in returned[w][c] : v.ctx = c
        /\ evals[w][c] <= 1
        /\ (returned[w][c] # {} \/ failures[w][c] > 0) => evals[w][c] = 1

(***************************************************************************)
(* C8.  memo of an already memoized element returns that same element and  *)
(* creates nothing: no new id, no new wrapper, no new cache; caches and    *)
(* evaluation counts stay as they are.                                     *)
(***************************************************************************)
C8_MemoOfMemoizedIsIdentity ==
    [][(memoCalls' # memoCalls /\ memoResult'.arg \in wrappers) =>
        /\ memoResult'.ret = memoResult'.arg
        /\ memoizedId' = memoizedId
        /\ wrappers' = wrappers
        /\ memoizedValues' = memoizedValues
        /\ evals' = evals
        /\ returned' = returned]_vars

\* memo(memo(x)) has returned memo(x), which has been rendered with its one
\* cache.
C8_Witness ==
    /\ memoResult.arg \in wrappers
    /\ memoResult.ret = memoResult.arg
    /\ Cardinality(wrappers) = 1
    /\ memoCalls >= 2
    /\ \E c \in contexts : Has(memoResult.ret, c) /\ evals[memoResult.ret][c] = 1

(***************************************************************************)
(* UseTools (packages/ai-jsx/src/batteries/docs-components.tsx, 220-230)   *)
(* and the errors its try/catch sees.                                      *)
(*                                                                         *)
(* An error is the record of its `code` and `kind`; an error that is not   *)
(* an AIJSXError has neither property.  A code is written as the name of   *)
(* its ErrorCode member: the enumeration (core/errors) gives distinct      *)
(* members distinct codes.                                                 *)
(***************************************************************************)
MemoIdle ==
    /\ memoizedId = 0
    /\ script = [frames |-> <<>>, ending |-> "return", ret |-> Undefined]
    /\ GenIdle
    /\ ElemIdle

\* ErrorCode.<member>: the value of a member of the enumeration.
ErrorCode(member) == member

AIJSXError(code, kind) == [class |-> "AIJSXError", code |-> code, kind |-> kind]

\* No error was thrown.
NoError == [class |-> "none", code |-> "none", kind |-> "none"]

\* An error thrown by code that knows nothing of AIJSXError (a TypeError, a
\* network failure): reading `.code` on it gives undefined.
PlainError == [class |-> "Error", code |-> Undefined, kind |-> Undefined]

\* AnthropicChatModel, given functionDefinitions (anthropic.tsx 98-104).
FunctionDefinitionsError == AIJSXError(ErrorCode("ChatModelDoesNotSupportFunctions"), "user")

\* UseToolsFunctionCall, given a model response it cannot use (265-269).
CouldNotBeParsedError == AIJSXError(ErrorCode("ModelOutputCouldNotBeParsedForTool"), "runtime")

\* The completion call failed with an APIError (anthropic.tsx 178-185).
AnthropicAPIError == AIJSXError(ErrorCode("AnthropicAPIError"), "runtime")

\* A chat model that raises the member UseTools tests for.
DoesntSupportFunctionsError == AIJSXError(ErrorCode("ChatModelDoesntSupportFunctions"), "user")

\* The errors that rendering <UseToolsFunctionCall/> can end with.
ToolErrors ==
    {FunctionDefinitionsError, CouldNotBeParsedError, AnthropicAPIError,
     DoesntSupportFunctionsError, PlainError}

\* render(<UseToolsFunctionCall {...props} />): the frames it streams and
\* how it ends.
ToolScripts ==
    {[frames |-> f, ending |-> "return", error |-> NoError] : f \in SeqsUpTo(MaxFrames)}
    \cup {[frames |-> f, ending |-> "throw", error |-> e] :
              f \in SeqsUpTo(MaxFrames), e \in ToolErrors}

\* Line 225: the test of the catch clause.
IsUnsupportedFunctions(e) == e.code = ErrorCode("ChatModelDoesntSupportFunctions")

\* Lines 222-223, one step of `yield* render(...)`: the next frame of the
\* delegated render is yielded to the caller of UseTools.
UseToolsForward ==
    /\ utPc \in {"start", "forwarding"}
    /\ utPos < Len(fcScript.frames)
    /\ utYielded' = Append(utYielded, fcScript.frames[utPos + 1])
    /\ utPos' = utPos + 1
    /\ utPc' = "forwarding"
    /\ UNCHANGED <<fcScript, utResult, utError>>
    /\ UNCHANGED OutsideTool

\* Lines 222-223: the delegated render is done; its result is returned.
UseToolsReturn ==
    /\ utPc \in {"start", "forwarding"}
    /\ utPos = Len(fcScript.frames)
    /\ fcScript.ending = "return"
    /\ utResult' = "rendered"
    /\ utPc' = "returned"
    /\ UNCHANGED <<fcScript, utPos, utYielded, utError>>
    /\ UNCHANGED OutsideTool

\* Lines 224-229: the delegated render threw e.
UseToolsCatch ==
    /\ utPc \in {"start", "forwarding"}
    /\ utPos = Len(fcScript.frames)
    /\ fcScript.ending = "throw"
    /\ LET e == fcScript.error
       IN IF IsUnsupportedFunctions(e)
          THEN /\ utResult' = "UseToolsPromptEngineered"
               /\ utPc' = "returned"
               /\ UNCHANGED utError
          ELSE /\ utError' = e
               /\ utPc' = "failed"
               /\ UNCHANGED utResult
    /\ UNCHANGED <<fcScript, utPos, utYielded>>
    /\ UNCHANGED OutsideTool

InitUseTools ==
    /\ MemoIdle
    /\ InspectorIdle
    /\ PromiseIdle
    /\ InvokeIdle
    /\ LoopIdle
    /\ StopIdle
    /\ CtxIdle
    /\ StreamIdle
    /\ ChatIdle
    /\ fcScript \in ToolScripts
    /\ utPc = "start"
    /\ utPos = 0
    /\ utYielded = <<>>
    /\ utResult = Undefined
    /\ utError = NoError

NextUseTools ==
    \/ UseToolsForward
    \/ UseToolsReturn
    \/ UseToolsCatch

SpecUseTools == InitUseTools /\ [][NextUseTools]_vars

\* C11: UseTools returns the prompt-engineered implementation exactly when
\* rendering the function-call implementation failed with the code that
\* AnthropicChatModel raises as ChatModelDoesNotSupportFunctions, and
\* rethrows every other error unchanged.
C11_FallbackIffUnsupported ==
    (utPc \in {"returned", "failed"} /\ fcScript.ending = "throw") =>
        IF fcScript.error.code = FunctionDefinitionsError.code
        THEN utPc = "returned" /\ utResult = "UseToolsPromptEngineered"
        ELSE utPc = "failed" /\ utError = fcScript.error

(***************************************************************************)
(* render(node, {stop}) as its two callers use it: UseToolsFunctionCall    *)
(* (docs-components.tsx 260) and AnthropicChatModel (anthropic.tsx         *)
(* 106-113).  The renderer itself is modelled from its specification:      *)
(* before expanding an element it consults stop(element); an element for   *)
(* which stop is true stays in the output where it stands, any other       *)
(* element is replaced in place by what its component renders.  Sibling    *)
(* elements are expanded in any order.                                     *)
(*                                                                         *)
(* The rendered node is a table of nodes numbered in document order; the   *)
(* children of an element are what its component renders.                  *)
(***************************************************************************)
MaxNodes == 3

MessageTags ==
    {"SystemMessage", "UserMessage", "AssistantMessage", "FunctionCall", "FunctionResponse"}
Tags == {"text", "Fragment"} \cup MessageTags

\* AI.isElement: everything in a render result that is not text.
IsElement(t, n) == t[n].tag # "text"

RECURSIVE Ancestors(_, _)
Ancestors(t, n) ==
    IF t[n].parent = 0 THEN {} ELSE {t[n].parent} \cup Ancestors(t, t[n].parent)

\* Numbering is document order, and only elements have children.
WellFormed(t) ==
    \A n \in DOMAIN t :
        /\ t[n].parent < n
        /\ t[n].parent # 0 => IsElement(t, t[n].parent)
        /\ n > 1 => t[n].parent \in {0, n - 1} \cup Ancestors(t, n - 1)

Trees ==
    UNION {{t \in [1..k -> [parent : 0..(k - 1), tag : Tags]] : WellFormed(t)} : k \in 0..MaxNodes}

RECURSIVE ChildrenFrom(_, _, _)
ChildrenFrom(t, p, n) ==
    IF n > Len(t) THEN <<>>
    ELSE IF t[n].parent = p THEN <<n>> \o ChildrenFrom(t, p, n + 1)
    ELSE ChildrenFrom(t, p, n + 1)

\* What the component of element p renders (p = 0: the rendered node).
Children(t, p) == ChildrenFrom(t, p, 1)

\* docs-components.tsx line 260: { stop: (el) => el.tag == FunctionCall }
StopUseToolsFunctionCall(tag) == tag = "FunctionCall"

\* A stop predicate that misses one of the five tags.
StopAnthropicWithoutFunctionResponse(tag) ==
    \/ tag = "SystemMessage"
    \/ tag = "UserMessage"
    \/ tag = "AssistantMessage"
    \/ tag = "FunctionCall"
\* anthropic.tsx lines 107-112.
StopAnthropicChatModel(tag) ==
    \/ tag = "SystemMessage"
    \/ tag = "UserMessage"
    \/ tag = "AssistantMessage"
    \/ tag = "FunctionCall"
    \/ tag = "FunctionResponse"

StopCallers == {"UseToolsFunctionCall", "AnthropicChatModel"}

Stop(caller, tag) ==
    IF caller = "UseToolsFunctionCall" THEN StopUseToolsFunctionCall(tag)
    ELSE StopAnthropicChatModel(tag)

\* The element at position i is consulted and stop(e) is true: it stays.
RenderKeep(i) ==
    /\ i \in 1..Len(rsOut)
    /\ IsElement(rsTree, rsOut[i])
    /\ rsOut[i] \notin rsKept
    /\ Stop(rsCaller, rsTree[rsOut[i]].tag)
    /\ rsKept' = rsKept \cup {rsOut[i]}
    /\ UNCHANGED <<rsTree, rsCaller, rsOut, rsExpanded>>
    /\ UNCHANGED OutsideStop

\* The element at position i is consulted and stop(e) is false: its
\* component is evaluated and what it renders takes its place.
RenderExpand(i) ==
    /\ i \in 1..Len(rsOut)
    /\ IsElement(rsTree, rsOut[i])
    /\ ~Stop(rsCaller, rsTree[rsOut[i]].tag)
    /\ rsExpanded' = rsExpanded \cup {rsOut[i]}
    /\ rsOut' = SubSeq(rsOut, 1, i - 1) \o Children(rsTree, rsOut[i])
                     \o SubSeq(rsOut, i + 1, Len(rsOut))
    /\ UNCHANGED <<rsTree, rsCaller, rsKept>>
    /\ UNCHANGED OutsideStop

\* The promise of render(node, {stop}) resolves: nothing is left to consult.
RenderDone ==
    \A i \in 1..Len(rsOut) : IsElement(rsTree, rsOut[i]) => rsOut[i] \in rsKept

InitRenderStop ==
    /\ MemoIdle
    /\ InspectorIdle
    /\ PromiseIdle
    /\ InvokeIdle
    /\ LoopIdle
    /\ ToolIdle
    /\ CtxIdle
    /\ StreamIdle
    /\ ChatIdle
    /\ rsTree \in Trees
    /\ rsCaller \in StopCallers
    /\ rsOut = Children(rsTree, 0)
    /\ rsExpanded = {}
    /\ rsKept = {}

NextRenderStop ==
    \/ \E i \in 1..MaxNodes : RenderKeep(i)
    \/ \E i \in 1..MaxNodes : RenderExpand(i)

SpecRenderStop == InitRenderStop /\ [][NextRenderStop]_vars

\* The tags each caller names in its stop predicate.
StopTags(caller) ==
    IF caller = "UseToolsFunctionCall" THEN {"FunctionCall"} ELSE MessageTags

\* Element n carries a tag its caller stops at, and no element around it does.
OutermostStopped(n) ==
    /\ rsTree[n].tag \in StopTags(rsCaller)
    /\ \A a \in Ancestors(rsTree, n) : rsTree[a].tag \notin StopTags(rsCaller)

\* Text n is not inside an element its caller stops at.
FreeText(n) ==
    /\ rsTree[n].tag = "text"
    /\ \A a \in Ancestors(rsTree, n) : rsTree[a].tag \notin StopTags(rsCaller)

RECURSIVE InOrder(_, _)
InOrder(S, n) ==
    IF n > Len(rsTree) THEN <<>>
    ELSE IF n \in S THEN <<n>> \o InOrder(S, n + 1)
    ELSE InOrder(S, n + 1)

\* C12: an element for which the caller's stop predicate is true (a
\* FunctionCall for UseToolsFunctionCall, any of the five message tags for
\* AnthropicChatModel) stands un-expanded in the render result, in document
\* order with the texts around it, and neither it nor anything under it is
\* ever evaluated.
C12_StoppedElementsStayUnrendered ==
    /\ \A n \in rsExpanded :
           /\ rsTree[n].tag \notin StopTags(rsCaller)
           /\ \A a \in Ancestors(rsTree, n) : rsTree[a].tag \notin StopTags(rsCaller)
    /\ RenderDone =>
           rsOut = InOrder({n \in DOMAIN rsTree : OutermostStopped(n) \/ FreeText(n)}, 1)

\* A render that is done, with a stopped element that has children, next to
\* an element that was expanded.
C12_Witness ==
    /\ rsCaller = "AnthropicChatModel"
    /\ RenderDone
    /\ rsExpanded # {}
    /\ \E n \in rsKept : Children(rsTree, n) # <<>>

(***************************************************************************)
(* <Anthropic> (anthropic.tsx 57-89) and the client that a chat model      *)
(* under it obtains with getContext(anthropicClientContext) (line 162).    *)
(*                                                                         *)
(* The rendered tree is a chain of <Anthropic> elements, one per level     *)
(* 1..MaxDepth, each holding a chat model and the next <Anthropic>; a      *)
(* further chat model stands at level 0, outside all of them, as a sibling *)
(* of the outermost one.  Siblings are rendered in any order.              *)
(*                                                                         *)
(* createContext / getContext / pushContext and the Provider element are   *)
(* modelled from the specification of the render context: a context maps   *)
(* each key to its bound value, a key that is not bound reads as the       *)
(* default given to createContext, and a Provider derives a new context    *)
(* for its children.                                                       *)
(***************************************************************************)
MaxDepth == 2

Levels == 1..MaxDepth
NoClient == "none"                  \* the prop `client` is absent
Clients == {"client1", "client2"}
DefaultClient == "defaultClient"    \* lines 18-22: the default of anthropicClientContext
Unbound == "unbound"
ContextKeys == {"anthropicClientContext", "chatModelContext"}

AnthropicPropsSet == [client : {NoClient} \cup Clients, chatModel : BOOLEAN, completionModel : BOOLEAN]

\* createRenderContext(): no key is bound.
RootContext == [k \in ContextKeys |-> Unbound]

\* getContext(key) under context c.
GetContext(store, c, key, default) ==
    IF store[c][key] = Unbound THEN default ELSE store[c][key]

\* pushContext(key, value) under context c: a derived context, appended to
\* the store; c itself is left as it was.
PushContext(store, c, key, value) == Append(store, [store[c] EXCEPT ![key] = value])

\* The Provider elements around `children` in what Anthropic returns,
\* outermost first, when the chat provider is put around the children
\* instead of around the client provider.
AnthropicResultChatAroundChildren(props) ==
    IF props.chatModel THEN <<[key |-> "chatModelContext", value |-> "AnthropicChatModel"]>>
    ELSE IF props.client # NoClient
         THEN <<[key |-> "anthropicClientContext", value |-> props.client]>>
         ELSE <<>>
\* Lines 64-76 and 88: the Provider elements around `children` in what
\* Anthropic returns, outermost first.
AnthropicResult(props) ==
    (IF props.chatModel
     THEN <<[key |-> "chatModelContext", value |-> "AnthropicChatModel"]>>
     ELSE <<>>)
    \o (IF props.client # NoClient
        THEN <<[key |-> "anthropicClientContext", value |-> props.client]>>
        ELSE <<>>)

\* Lines 80-86.
AnthropicThrows(props) == props.completionModel

RECURSIVE PushAll(_, _, _)
\* The renderer enters the Provider elements one inside the other; the
\* innermost derived context is the last of the store.
PushAll(store, c, layers) ==
    IF layers = <<>> THEN store
    ELSE PushAll(PushContext(store, c, layers[1].key, layers[1].value),
                 Len(store) + 1, Tail(layers))

\* The <Anthropic> element of level k is rendered.
RenderAnthropic(k) ==
    /\ k \in Levels
    /\ anCtx[k] # 0
    /\ anState[k] = "pending"
    /\ IF AnthropicThrows(anProps[k])
       THEN /\ anState' = [anState EXCEPT ![k] = "threw"]
            /\ UNCHANGED <<ctxStore, anCtx, coCtx>>
       ELSE LET layers == AnthropicResult(anProps[k])
                store == PushAll(ctxStore, anCtx[k], layers)
                inner == IF layers = <<>> THEN anCtx[k] ELSE Len(store)
            IN /\ ctxStore' = store
               /\ anState' = [anState EXCEPT ![k] = "rendered"]
               /\ coCtx' = [coCtx EXCEPT ![k] = inner]
               /\ anCtx' = IF k < MaxDepth THEN [anCtx EXCEPT ![k + 1] = inner] ELSE anCtx
    /\ UNCHANGED <<anProps, seen>>
    /\ UNCHANGED OutsideCtx

\* Line 162, in the chat model of level j.
ChatModelGetContext(j) ==
    /\ j \in 0..MaxDepth
    /\ coCtx[j] # 0
    /\ seen[j] = Undefined
    /\ seen' = [seen EXCEPT ![j] =
                    GetContext(ctxStore, coCtx[j], "anthropicClientContext", DefaultClient)]
    /\ UNCHANGED <<anProps, ctxStore, anCtx, anState, coCtx>>
    /\ UNCHANGED OutsideCtx

InitContext ==
    /\ MemoIdle
    /\ InspectorIdle
    /\ PromiseIdle
    /\ InvokeIdle
    /\ LoopIdle
    /\ ToolIdle
    /\ StopIdle
    /\ StreamIdle
    /\ ChatIdle
    /\ anProps \in [Levels -> AnthropicPropsSet]
    /\ ctxStore = <<RootContext>>
    /\ anCtx = [k \in Levels |-> IF k = 1 THEN 1 ELSE 0]
    /\ anState = [k \in Levels |-> "pending"]
    /\ coCtx = [j \in 0..MaxDepth |-> IF j = 0 THEN 1 ELSE 0]
    /\ seen = [j \in 0..MaxDepth |-> Undefined]

NextContext ==
    \/ \E k \in Levels : RenderAnthropic(k)
    \/ \E j \in 0..MaxDepth : ChatModelGetContext(j)

SpecContext == InitContext /\ [][NextContext]_vars

RECURSIVE NearestClient(_)
\* The client prop of the innermost <Anthropic> around level j that has one.
NearestClient(j) ==
    IF j = 0 THEN DefaultClient
    ELSE IF anProps[j].client # NoClient THEN anProps[j].client
    ELSE NearestClient(j - 1)

\* C13: a chat model under an <Anthropic> that was given a client obtains
\* that client from getContext(anthropicClientContext); one under an
\* <Anthropic> without a client obtains the binding of the nearest
\* <Anthropic> around it that has one, and the default when there is none;
\* a chat model that is a sibling of an <Anthropic> is unaffected by it.
C13_ClientScopedToSubtree ==
    \A j \in DOMAIN seen : seen[j] # Undefined => seen[j] = NearestClient(j)

\* Two nested <Anthropic> with different clients, the outer one also a chat
\* provider: the inner chat model, the outer one and the sibling outside
\* have all read their client.
C13_Witness ==
    /\ anProps # <<>>
    /\ anProps[1].client = "client1"
    /\ anProps[1].chatModel
    /\ anProps[2].client = "client2"
    /\ \A j \in 0..2 : seen[j] # Undefined
    /\ seen[2] = "client2"

(***************************************************************************)
(* renderStream(children) as AIStream consumes it (unnamed/part_000,       *)
(* 109-124).                                                               *)
(*                                                                         *)
(* The stream is modelled from the specification of the renderer, in       *)
(* cumulative mode: the children of a sequence advance in any order, a     *)
(* value yielded by a lazy producer becomes that child's current frame,    *)
(* its final return value, if any, replaces the last frame, the running    *)
(* output is the concatenation of the children's current frames in order,  *)
(* and the sequence advances its emitted frame when a child's frame        *)
(* changes, to a frame that extends the one emitted before (the frame is   *)
(* never non-monotone).  The iterator ends with the final output.          *)
(*                                                                         *)
(* A text is written as a string where a producer yields it and as the     *)
(* sequence of its characters where frames are concatenated and compared.  *)
(***************************************************************************)
StreamTexts == {"a", "ab", "b"}

Chars(t) ==
    CASE t = "" -> <<>>
      [] t = "a" -> <<"a">>
      [] t = "ab" -> <<"a", "b">>
      [] t = "b" -> <<"b">>

RECURSIVE TextSeqsUpTo(_)
TextSeqsUpTo(n) ==
    IF n = 0 THEN {<<>>}
    ELSE LET shorter == TextSeqsUpTo(n - 1)
         IN shorter \cup {Append(q, v) : q \in {t \in shorter : Len(t) = n - 1}, v \in StreamTexts}

\* A child of the rendered node: a text, or a component that is an async
\* generator yielding `yields` and returning `ret`, none of them the
\* append-only marker.
StreamChildren ==
    {[kind |-> "text", text |-> t, yields |-> <<>>, ret |-> Undefined] : t \in StreamTexts}
    \cup {[kind |-> "producer", text |-> "", yields |-> y, ret |-> r] :
              y \in TextSeqsUpTo(MaxFrames), r \in {Undefined, "ab"}}

StreamNodes ==
    {<<c>> : c \in StreamChildren} \cup {<<c, d>> : c \in StreamChildren, d \in StreamChildren}

RECURSIVE Concat(_, _)
\* The running output: the children's current frames, in order.
Concat(cur, i) ==
    IF i > Len(cur) THEN <<>> ELSE Chars(cur[i]) \o Concat(cur, i + 1)

\* The frame of a child before it has produced anything.
InitialFrame(child) == IF child.kind = "text" THEN child.text ELSE ""

\* The frame the stream emitted last; the empty frame before the first.
LastEmitted(results) ==
    IF results = <<>> THEN <<>> ELSE results[Len(results)].value

\* A child advances: a producer yields its next value, or returns.  The
\* sequence emits the running output when the child's frame changed it and
\* it extends the frame emitted last.
ChildAdvance(i) ==
    /\ i \in DOMAIN stNode
    /\ stNode[i].kind = "producer"
    /\ i \notin stFin
    /\ LET child == stNode[i]
           finishes == stPos[i] = Len(child.yields)
           frame == IF ~finishes THEN child.yields[stPos[i] + 1]
                    ELSE IF child.ret # Undefined THEN child.ret
                    ELSE stCur[i]
           cur == [stCur EXCEPT ![i] = frame]
           changed == IF /\ Concat(cur, 1) # Concat(stCur, 1)
                         /\ IsPrefix(LastEmitted(stResults), Concat(cur, 1))
                      THEN <<[value |-> Concat(cur, 1), done |-> FALSE]>>
                      ELSE <<>>
           fin == IF finishes THEN stFin \cup {i} ELSE stFin
           ended == IF \A j \in DOMAIN stNode : stNode[j].kind = "producer" => j \in fin
                    THEN <<[value |-> Concat(cur, 1), done |-> TRUE]>>
                    ELSE <<>>
       IN /\ stCur' = cur
          /\ stFin' = fin
          /\ stPos' = IF finishes THEN stPos ELSE [stPos EXCEPT ![i] = @ + 1]
          /\ stResults' = stResults \o changed \o ended
    /\ UNCHANGED <<stNode, shNext, shPending, shSeen, listeners, deferred>>
    /\ UNCHANGED OutsideStream

\* part_000 line 120: handleFrame asks for the next frame unless the stream
\* is done.
PullsAgain(done) == ~done

\* part_000 lines 115-119: the listeners that emitting the characters of a
\* frame calls: those of the positions the frame has.  An empty frame is
\* falsy and emits nothing, as it would if it were split.
Emitted(frame, registered) == {i \in registered : i < Len(frame)}

\* part_000 line 99: resolve(char) of the promise made by Defer.  A promise
\* keeps the value of the first call.
Resolve(promise, char) ==
    [state |-> "resolved",
     value |-> IF promise.state = "resolved" THEN promise.value ELSE char,
     resolves |-> promise.resolves + 1]

\* part_000 lines 114-123: the outstanding stream.next() resolves and
\* handleFrame runs.  A once-listener is removed when it is called.
HandleFrame ==
    /\ shPending
    /\ shNext < Len(stResults)
    /\ LET result == stResults[shNext + 1]
           called == Emitted(result.value, listeners)
       IN /\ shSeen' = Append(shSeen, result.value)
          /\ deferred' = [i \in Positions |->
                              IF i \in called
                              THEN Resolve(deferred[i], result.value[i + 1])
                              ELSE deferred[i]]
          /\ listeners' = listeners \ called
          /\ shPending' = PullsAgain(result.done)
    /\ shNext' = shNext + 1
    /\ UNCHANGED <<stNode, stPos, stFin, stCur, stResults>>
    /\ UNCHANGED OutsideStream

\* part_000 lines 113 and 124: the stream is created and first asked.
InitRenderStream ==
    /\ MemoIdle
    /\ InspectorIdle
    /\ PromiseIdle
    /\ InvokeIdle
    /\ LoopIdle
    /\ ToolIdle
    /\ StopIdle
    /\ CtxIdle
    /\ ChatIdle
    /\ stNode \in StreamNodes
    /\ stPos = [i \in DOMAIN stNode |-> 0]
    /\ stFin = {}
    /\ stCur = [i \in DOMAIN stNode |-> InitialFrame(stNode[i])]
    /\ stResults = IF \E i \in DOMAIN stNode : stNode[i].kind = "producer"
                   THEN <<>>
                   ELSE <<[value |-> Concat(stCur, 1), done |-> TRUE]>>
    /\ shNext = 0
    /\ shPending = TRUE
    /\ shSeen = <<>>
    /\ listeners = {}
    /\ deferred = [i \in Positions |-> NotCalled]

RECURSIVE RenderFrom(_, _)
\* render(n): the final output.
RenderFrom(node, i) ==
    IF i > Len(node) THEN <<>>
    ELSE Chars(IF node[i].kind = "text" THEN node[i].text
               ELSE FinalFrame(node[i].yields, node[i].ret))
         \o RenderFrom(node, i + 1)

Render(node) == RenderFrom(node, 1)

\* The values of a producer, its return value included, each extend the one
\* before.
GrowingProducer(child) ==
    LET values == IF child.ret = Undefined THEN child.yields
                  ELSE Append(child.yields, child.ret)
    IN \A i \in 1..(Len(values) - 1) : IsPrefix(Chars(values[i]), Chars(values[i + 1]))

\* Only the last child is a lazy producer, and its values grow.
OnlyLastGrows(node) ==
    /\ \A i \in 1..(Len(node) - 1) : node[i].kind = "text"
    /\ node[Len(node)].kind = "producer" => GrowingProducer(node[Len(node)])

(***************************************************************************)
(* AnthropicChatModel (anthropic.tsx 94-219), one execution of the async   *)
(* generator, and the generator it embeds in the <AssistantMessage> it     *)
(* yields (194-213).                                                       *)
(*                                                                         *)
(* render(props.children, {stop}) resolves to texts and message elements;  *)
(* an element is written as its tag.  The renders of the messages are      *)
(* started together by .map(async ...) and complete in any order.          *)
(***************************************************************************)
MaxMessages == 2
MaxChunks == 2

AppendOnlyStream == "AppendOnlyStream"

\* The props with respect to line 98: no functionDefinitions key, the key
\* with the value undefined, or the key with a list of definitions.
FunctionDefinitionsProps == {"absent", "undefined", "defined"}

RECURSIVE ElementSeqsUpTo(_)
ElementSeqsUpTo(n) ==
    IF n = 0 THEN {<<>>}
    ELSE LET shorter == ElementSeqsUpTo(n - 1)
         IN shorter \cup {Append(q, v) : q \in {t \in shorter : Len(t) = n - 1},
                                         v \in {"text"} \cup MessageTags}

\* Line 98, with a test of the value instead of the key.
HasFunctionDefinitionsValue(props) == props = "defined"
\* Line 98: 'functionDefinitions' in props
HasFunctionDefinitions(props) == props # "absent"

\* Line 105, left out.
YieldsNothingAtStart == <<>>
\* Line 105: yield AI.AppendOnlyStream
YieldsAtStart == <<AppendOnlyStream>>

RECURSIVE FlatMapFrom(_, _)
\* Lines 115-126: .filter(AI.isElement).flatMap(...).  A message keeps the
\* position `of` of the element it came from.
FlatMapFrom(els, i) ==
    IF i > Len(els) THEN <<>>
    ELSE (IF els[i] = "text" THEN <<>>
          ELSE IF els[i] = "SystemMessage"
          THEN <<[tag |-> "UserMessage", of |-> i, form |-> "instructions"],
                 [tag |-> "AssistantMessage", of |-> i, form |-> "acknowledgement"]>>
          ELSE <<[tag |-> els[i], of |-> i, form |-> "content"]>>)
         \o FlatMapFrom(els, i + 1)

FlatMap(els) == FlatMapFrom(els, 1)

\* Lines 127-149: how far the async callback of .map gets before it
\* returns its promise.
MessageStart(tag) ==
    IF tag \in {"UserMessage", "AssistantMessage"} THEN "pending" ELSE "rejected"

\* Lines 135-147.
MessageError(tag) ==
    IF tag \in {"FunctionCall", "FunctionResponse"}
    THEN AIJSXError(ErrorCode("AnthropicDoesNotSupportFunctions"), "user")
    ELSE AIJSXError(ErrorCode("ChatCompletionUnexpectedChild"), "internal")

\* Lines 130 and 134: the string a message becomes.
Format(message) ==
    [role |-> IF message.tag = "UserMessage" THEN "HUMAN_PROMPT" ELSE "AI_PROMPT",
     of |-> message.of, form |-> message.form]

NoValue == [role |-> "none", of |-> 0, form |-> "none"]

\* Line 160: AnthropicSDK.AI_PROMPT
AiPromptMarker == [role |-> "AI_PROMPT", of |-> 0, form |-> "marker"]

\* A Promise.all that fills its array in the order the promises fulfil.
StoreValueInArrivalOrder(values, i, v) ==
    LET free == CHOOSE k \in DOMAIN values :
                    values[k] = NoValue /\ \A j \in 1..(k - 1) : values[j] # NoValue
    IN [values EXCEPT ![free] = v]
\* Line 114: Promise.all puts the value of the i-th promise at index i.
StoreValue(values, i, v) == [values EXCEPT ![i] = v]

\* A Promise.all that resolves as soon as one promise has fulfilled.
AnyFulfilled(settled) == \E i \in DOMAIN settled : settled[i] = "fulfilled"
\* Line 114: Promise.all resolves when every promise has fulfilled.
AllFulfilled(settled) == \A i \in DOMAIN settled : settled[i] = "fulfilled"

\* Line 152, left out.
IsMissingChildrenNever(messages) == FALSE
\* Line 152: !messages.length
IsMissingChildren(messages) == Len(messages) = 0

MissingChildrenError == AIJSXError(ErrorCode("ChatCompletionMissingChildren"), "user")

\* What anthropic.completions.create can throw: an AnthropicSDK.APIError or
\* anything else.
SdkAPIError == [class |-> "APIError", code |-> Undefined, kind |-> Undefined]
CompletionFailures == {SdkAPIError, PlainError}

\* A catch clause that wraps every error.
CompletionCatchWrapsAll(err) == AnthropicAPIError
\* Lines 178-188: the error the catch clause throws.
CompletionCatch(err) ==
    IF err.class = "APIError" THEN AnthropicAPIError ELSE err

\* The text of a completion event, as a sequence of characters.
ChunkValues == {<<>>, <<" ">>, <<" ", " ">>, <<" ", "x">>, <<"x">>}

RECURSIVE ChunkSeqsUpTo(_)
ChunkSeqsUpTo(n) ==
    IF n = 0 THEN {<<>>}
    ELSE LET shorter == ChunkSeqsUpTo(n - 1)
         IN shorter \cup {Append(q, v) : q \in {t \in shorter : Len(t) = n - 1}, v \in ChunkValues}

chatState == <<acProps, acElements, acChildren, acPc, acYielded, acRenderCalls, acMessages, acSettled,
               acValues, acOutOfOrder, acPrompt, acApiCalls, acApiFailure, acError>>
innerVars == <<inResponse, inPc, inPos, inYielded, inFirst, inSoFar>>

\* Lines 98-105, the first next(): the check of the props, then the first
\* yield.
ChatStart ==
    /\ acPc = "start"
    /\ IF HasFunctionDefinitions(acProps)
       THEN /\ acError' = FunctionDefinitionsError
            /\ acPc' = "failed"
            /\ UNCHANGED acYielded
       ELSE /\ acYielded' = acYielded \o YieldsAtStart
            /\ acPc' = "yieldedStart"
            /\ UNCHANGED acError
    /\ UNCHANGED <<acProps, acElements, acChildren, acRenderCalls, acMessages, acSettled, acValues,
                   acOutOfOrder, acPrompt, acApiCalls, acApiFailure>>
    /\ UNCHANGED innerVars
    /\ UNCHANGED OutsideChat

\* Line 106, the next next(): render(props.children, {stop}) is called.
ChatRenderChildren ==
    /\ acPc = "yieldedStart"
    /\ acRenderCalls' = acRenderCalls + 1
    /\ acPc' = "renderChildren"
    /\ UNCHANGED <<acProps, acElements, acChildren, acYielded, acMessages, acSettled, acValues,
                   acOutOfOrder, acPrompt, acApiCalls, acApiFailure, acError>>
    /\ UNCHANGED innerVars
    /\ UNCHANGED OutsideChat

\* Line 106: the render of the children fails; the error leaves the
\* generator as it is.
ChatChildrenFail ==
    /\ acPc = "renderChildren"
    /\ acChildren' = "rejected"
    /\ acError' = PlainError
    /\ acPc' = "failed"
    /\ UNCHANGED <<acProps, acElements, acYielded, acRenderCalls, acMessages, acSettled,
                   acValues, acOutOfOrder, acPrompt, acApiCalls, acApiFailure>>
    /\ UNCHANGED innerVars
    /\ UNCHANGED OutsideChat

\* Lines 106-150: the render of the children resolves; the elements are
\* filtered, flat-mapped and mapped, which starts the render of every user
\* and assistant message and gives an already rejected promise for a
\* function message; Promise.all is called and the generator is suspended
\* at the await of line 114.
ChatMapMessages ==
    /\ acPc = "renderChildren"
    /\ acChildren' = "resolved"
    /\ LET messages == FlatMap(acElements)
           starts == [i \in DOMAIN messages |-> MessageStart(messages[i].tag)]
           rejected == {i \in DOMAIN messages : starts[i] = "rejected"}
       IN /\ acMessages' = messages
          /\ acSettled' = starts
          /\ acValues' = [i \in DOMAIN messages |-> NoValue]
          /\ acRenderCalls' = acRenderCalls + Cardinality(DOMAIN messages \ rejected)
    /\ acPc' = "awaitMessages"
    /\ UNCHANGED <<acProps, acElements, acYielded, acOutOfOrder, acPrompt, acApiCalls, acApiFailure,
                   acError>>
    /\ UNCHANGED innerVars
    /\ UNCHANGED OutsideChat

\* Lines 130 and 134: render(message) resolves for message i.
MessageRendered(i) ==
    /\ acPc = "awaitMessages"
    /\ i \in DOMAIN acSettled
    /\ acSettled[i] = "pending"
    /\ acSettled' = [acSettled EXCEPT ![i] = "fulfilled"]
    /\ acValues' = StoreValue(acValues, i, Format(acMessages[i]))
    /\ acOutOfOrder' = (acOutOfOrder \/ \E j \in 1..(i - 1) : acSettled[j] = "pending")
    /\ UNCHANGED <<acProps, acElements, acChildren, acPc, acYielded, acRenderCalls, acMessages,
                   acPrompt, acApiCalls, acApiFailure, acError>>
    /\ UNCHANGED innerVars
    /\ UNCHANGED OutsideChat

\* Lines 130 and 134: render(message) rejects for message i, and with it
\* the promise of the callback; the generator is still suspended.
MessageRenderFails(i) ==
    /\ acPc = "awaitMessages"
    /\ i \in DOMAIN acSettled
    /\ acSettled[i] = "pending"
    /\ acSettled' = [acSettled EXCEPT ![i] = "rejected"]
    /\ UNCHANGED <<acProps, acElements, acChildren, acPc, acYielded, acRenderCalls, acMessages,
                   acValues, acOutOfOrder, acPrompt, acApiCalls, acApiFailure, acError>>
    /\ UNCHANGED innerVars
    /\ UNCHANGED OutsideChat

\* Line 114: the reason Promise.all rejects with, the one of the first
\* rejection it is told of.  The promise of a function message is rejected
\* already when Promise.all subscribes to it, so its reaction is queued
\* before that of any render that fails, and in the order of the messages.
AllRejection(messages) ==
    LET thrown == {i \in DOMAIN messages : MessageStart(messages[i].tag) = "rejected"}
    IN IF thrown # {}
       THEN MessageError(messages[CHOOSE i \in thrown : \A j \in thrown : i <= j].tag)
       ELSE PlainError

\* Line 114: Promise.all has rejected and the generator is resumed: the
\* await throws, and the error leaves the generator as it is.
ChatAwaitThrows ==
    /\ acPc = "awaitMessages"
    /\ \E i \in DOMAIN acSettled : acSettled[i] = "rejected"
    /\ acError' = AllRejection(acMessages)
    /\ acPc' = "failed"
    /\ UNCHANGED <<acProps, acElements, acChildren, acYielded, acRenderCalls, acMessages, acSettled,
                   acValues, acOutOfOrder, acPrompt, acApiCalls, acApiFailure>>
    /\ UNCHANGED innerVars
    /\ UNCHANGED OutsideChat

\* Lines 152-177: Promise.all has resolved; the prompt is put together and
\* the completion API is called.
ChatCallCompletion ==
    /\ acPc = "awaitMessages"
    /\ AllFulfilled(acSettled)
    /\ IF IsMissingChildren(acValues)
       THEN /\ acError' = MissingChildrenError
            /\ acPc' = "failed"
            /\ UNCHANGED <<acPrompt, acApiCalls>>
       ELSE /\ acPrompt' = Append(acValues, AiPromptMarker)
            /\ acApiCalls' = acApiCalls + 1
            /\ acPc' = "awaitCompletion"
            /\ UNCHANGED acError
    /\ UNCHANGED <<acProps, acElements, acChildren, acYielded, acRenderCalls, acMessages, acSettled,
                   acValues, acOutOfOrder, acApiFailure>>
    /\ UNCHANGED innerVars
    /\ UNCHANGED OutsideChat

\* Lines 177-188: the call throws err.
CompletionFails(err) ==
    /\ acPc = "awaitCompletion"
    /\ acApiFailure' = err
    /\ acError' = CompletionCatch(err)
    /\ acPc' = "failed"
    /\ UNCHANGED <<acProps, acElements, acChildren, acYielded, acRenderCalls, acMessages, acSettled,
                   acValues, acOutOfOrder, acPrompt, acApiCalls>>
    /\ UNCHANGED innerVars
    /\ UNCHANGED OutsideChat

\* Lines 177 and 191-216: the call resolves with a response; the inner
\* generator is created and memoized, which takes the next memoizedId for
\* the <MemoizedGenerator> element, and the <AssistantMessage> around that
\* element is yielded.  The inner generator is followed by its own
\* variables below.
CompletionResponds(response) ==
    /\ acPc = "awaitCompletion"
    /\ inResponse' = response
    /\ inPc' = "created"
    /\ memoizedId' = memoizedId + 1
    /\ acYielded' = Append(acYielded, "AssistantMessage")
    /\ acPc' = "yieldedAssistant"
    /\ UNCHANGED <<acProps, acElements, acChildren, acRenderCalls, acMessages, acSettled, acValues,
                   acOutOfOrder, acPrompt, acApiCalls, acApiFailure, acError>>
    /\ UNCHANGED <<inPos, inYielded, inFirst, inSoFar>>
    /\ UNCHANGED <<genVars, elemVars, toolVars, stopVars, ctxVars, streamVars, loopVars,
                   invokeVars, promiseVars, inspVars>>

\* Line 218, the last next(): return AI.AppendOnlyStream
ChatReturn ==
    /\ acPc = "yieldedAssistant"
    /\ acPc' = "returned"
    /\ UNCHANGED <<acProps, acElements, acChildren, acYielded, acRenderCalls, acMessages, acSettled,
                   acValues, acOutOfOrder, acPrompt, acApiCalls, acApiFailure, acError>>
    /\ UNCHANGED innerVars
    /\ UNCHANGED OutsideChat

\* A trim that forgets isFirstResponse: every event loses a leading space.
TrimEvery(text, isFirstResponse) ==
    IF Len(text) > 0 /\ text[1] = " " THEN Tail(text) ELSE text
\* Lines 200-205: the text of a completion event, without the space the
\* first non-empty one may begin with.
TrimFirst(text, isFirstResponse) ==
    IF isFirstResponse /\ Len(text) > 0 /\ text[1] = " " THEN Tail(text) ELSE text

\* Line 195, the first next() of the inner generator.
InnerStart ==
    /\ inPc = "created"
    /\ inYielded' = Append(inYielded, [kind |-> AppendOnlyStream, text |-> <<>>])
    /\ inPc' = "streaming"
    /\ UNCHANGED <<inResponse, inPos, inFirst, inSoFar>>
    /\ UNCHANGED chatState
    /\ UNCHANGED OutsideChat

\* Lines 198-208: the next completion event arrives and its text is yielded.
InnerChunk ==
    /\ inPc = "streaming"
    /\ inPos < Len(inResponse)
    /\ LET completion == inResponse[inPos + 1]
           text == TrimFirst(completion, inFirst)
       IN /\ inFirst' = (inFirst /\ ~(Len(completion) > 0))
          /\ inSoFar' = inSoFar \o text
          /\ inYielded' = Append(inYielded, [kind |-> "text", text |-> text])
    /\ inPos' = inPos + 1
    /\ UNCHANGED <<inResponse, inPc>>
    /\ UNCHANGED chatState
    /\ UNCHANGED OutsideChat

\* Lines 209-212: the response is exhausted.
InnerReturn ==
    /\ inPc = "streaming"
    /\ inPos = Len(inResponse)
    /\ inPc' = "returned"
    /\ UNCHANGED <<inResponse, inPos, inYielded, inFirst, inSoFar>>
    /\ UNCHANGED chatState
    /\ UNCHANGED OutsideChat

InitAnthropic ==
    /\ MemoIdle
    /\ InspectorIdle
    /\ PromiseIdle
    /\ InvokeIdle
    /\ LoopIdle
    /\ ToolIdle
    /\ StopIdle
    /\ CtxIdle
    /\ StreamIdle
    /\ acProps \in FunctionDefinitionsProps
    /\ acElements \in ElementSeqsUpTo(MaxMessages)
    /\ acChildren = "pending"
    /\ acPc = "start"
    /\ acYielded = <<>>
    /\ acRenderCalls = 0
    /\ acMessages = <<>>
    /\ acSettled = <<>>
    /\ acValues = <<>>
    /\ acOutOfOrder = FALSE
    /\ acPrompt = <<>>
    /\ acApiCalls = 0
    /\ acApiFailure = NoError
    /\ acError = NoError
    /\ inResponse = <<>>
    /\ inPc = "absent"
    /\ inPos = 0
    /\ inYielded = <<>>
    /\ inFirst = TRUE
    /\ inSoFar = <<>>

NextAnthropic ==
    \/ ChatStart
    \/ ChatRenderChildren
    \/ ChatChildrenFail
    \/ ChatMapMessages
    \/ \E i \in 1..(2 * MaxMessages) : MessageRendered(i)
    \/ \E i \in 1..(2 * MaxMessages) : MessageRenderFails(i)
    \/ ChatAwaitThrows
    \/ ChatCallCompletion
    \/ \E err \in CompletionFailures : CompletionFails(err)
    \/ \E response \in ChunkSeqsUpTo(MaxChunks) : CompletionResponds(response)
    \/ ChatReturn
    \/ InnerStart
    \/ InnerChunk
    \/ InnerReturn

SpecAnthropic == InitAnthropic /\ [][NextAnthropic]_vars

\* C15: in every execution of AnthropicChatModel that yields anything, and
\* in every execution of the inner completion stream, the first value
\* yielded is the append-only sentinel, before any text or element.
C15_SentinelIsFirstYield ==
    /\ acYielded # <<>> => acYielded[1] = AppendOnlyStream
    /\ inYielded # <<>> => inYielded[1].kind = AppendOnlyStream

\* Both generators have yielded something after their first value.
C15_Witness ==
    /\ Len(acYielded) = 2
    /\ acYielded[2] = "AssistantMessage"
    /\ Len(inYielded) >= 2
    /\ inYielded[2].kind = "text"

\* C16: when the props contain a functionDefinitions entry, the execution
\* fails with the 'user' error ChatModelDoesNotSupportFunctions before it
\* yields any frame (not even the sentinel), before it renders any child
\* and without calling the completion API.
C16_FunctionDefinitionsFailFirst ==
    (acProps \in {"undefined", "defined"} /\ acPc # "start") =>
        /\ acPc = "failed"
        /\ acError.class = "AIJSXError"
        /\ acError.code = "ChatModelDoesNotSupportFunctions"
        /\ acError.kind = "user"
        /\ acYielded = <<>>
        /\ acRenderCalls = 0
        /\ acApiCalls = 0

\* The entry is present with the value undefined, and the execution failed.
C16_Witness ==
    /\ acProps = "undefined"
    /\ acPc = "failed"
    /\ acElements # <<>>

FunctionMessages == {"FunctionCall", "FunctionResponse"}

\* C17: the completion API is called at most once, and only after every
\* message element has been rendered successfully; if any message is a
\* FunctionCall or FunctionResponse the execution fails with the 'user'
\* error AnthropicDoesNotSupportFunctions and the API is never called.
C17_CompletionCalledOnceAfterRenders ==
    /\ acApiCalls <= 1
    /\ acApiCalls = 1 =>
           /\ acChildren = "resolved"
           /\ \A i \in DOMAIN acMessages : acSettled[i] = "fulfilled"
    /\ (\E i \in DOMAIN acElements : acElements[i] \in FunctionMessages) =>
           /\ acApiCalls = 0
           /\ acChildren = "resolved" => acPc \in {"awaitMessages", "failed"}
           /\ (acChildren = "resolved" /\ acPc = "failed") =>
                  /\ acError.class = "AIJSXError"
                  /\ acError.code = "AnthropicDoesNotSupportFunctions"
                  /\ acError.kind = "user"

\* The API has been called for a system message and a user message, the
\* three renders done.
C17_Witness ==
    /\ acApiCalls = 1
    /\ acElements = <<"SystemMessage", "UserMessage">>
    /\ Len(acSettled) = 3

\* C18: when the children render to no message element, the execution
\* fails with the 'user' error ChatCompletionMissingChildren, the API is
\* not called and no <AssistantMessage> is yielded.
C18_NoMessagesFails ==
    ((\A i \in DOMAIN acElements : acElements[i] = "text") /\ acChildren = "resolved") =>
        /\ acPc \in {"awaitMessages", "failed"}
        /\ acPc = "failed" =>
               /\ acError.class = "AIJSXError"
               /\ acError.code = "ChatCompletionMissingChildren"
               /\ acError.kind = "user"
        /\ acApiCalls = 0
        /\ \A i \in DOMAIN acYielded : acYielded[i] # "AssistantMessage"

\* The children rendered to text only and the execution failed.
C18_Witness ==
    /\ acElements = <<"text">>
    /\ acChildren = "resolved"
    /\ acPc = "failed"
    /\ acYielded = <<AppendOnlyStream>>

\* The parts of the prompt that come from element e.
PartsOf(e) == {k \in 1..(Len(acPrompt) - 1) : acPrompt[k].of = e}

\* C19: the messages of the prompt stand in the lexical order of the
\* message elements whatever the order in which their renders completed,
\* each SystemMessage is replaced in place by a user message immediately
\* followed by an assistant acknowledgement, and the prompt ends with the
\* assistant prompt marker.
C19_PromptInLexicalOrder ==
    acPrompt # <<>> =>
        /\ acPrompt[Len(acPrompt)] = AiPromptMarker
        /\ \A j, k \in 1..(Len(acPrompt) - 1) : j < k => acPrompt[j].of <= acPrompt[k].of
        /\ \A e \in DOMAIN acElements :
               CASE acElements[e] = "text" -> PartsOf(e) = {}
                 [] acElements[e] = "SystemMessage" ->
                        \E k \in 1..(Len(acPrompt) - 2) :
                            /\ PartsOf(e) = {k, k + 1}
                            /\ acPrompt[k] = [role |-> "HUMAN_PROMPT", of |-> e,
                                              form |-> "instructions"]
                            /\ acPrompt[k + 1] = [role |-> "AI_PROMPT", of |-> e,
                                                  form |-> "acknowledgement"]
                 [] acElements[e] = "UserMessage" ->
                        \E k \in 1..(Len(acPrompt) - 1) :
                            /\ PartsOf(e) = {k}
                            /\ acPrompt[k] = [role |-> "HUMAN_PROMPT", of |-> e,
                                              form |-> "content"]
                 [] acElements[e] = "AssistantMessage" ->
                        \E k \in 1..(Len(acPrompt) - 1) :
                            /\ PartsOf(e) = {k}
                            /\ acPrompt[k] = [role |-> "AI_PROMPT", of |-> e,
                                              form |-> "content"]
                 [] OTHER -> FALSE

\* A prompt for a system message and an assistant message whose renders
\* did not complete in the order of the messages.
C19_Witness ==
    /\ acPrompt # <<>>
    /\ acElements = <<"SystemMessage", "AssistantMessage">>
    /\ acOutOfOrder

\* C20: when the completion call fails with an APIError the execution
\* fails with an AIJSXError of kind 'runtime' and code AnthropicAPIError;
\* any other failure is rethrown unchanged; in both cases the sentinel is
\* the only value yielded and no <AssistantMessage> is ever yielded.
C20_CompletionFailureSurfaces ==
    acApiFailure # NoError =>
        /\ acPc = "failed"
        /\ acYielded = <<AppendOnlyStream>>
        /\ inPc = "absent"
        /\ IF acApiFailure.class = "APIError"
           THEN /\ acError.class = "AIJSXError"
                /\ acError.code = "AnthropicAPIError"
                /\ acError.kind = "runtime"
           ELSE acError = acApiFailure

\* The call failed with an error that is not an APIError.
C20_Witness ==
    /\ acApiFailure = PlainError
    /\ acApiCalls = 1
    /\ acPc = "failed"

RECURSIVE Flatten(_)
\* The concatenation of a sequence of texts.
Flatten(texts) == IF texts = <<>> THEN <<>> ELSE texts[1] \o Flatten(Tail(texts))

\* The delta frames the inner generator has yielded after the sentinel.
DeltaFrames == [i \in 1..(Len(inYielded) - 1) |-> inYielded[i + 1].text]

\* The response with one leading space removed from its first non-empty
\* event, every other event as it is.
ExpectedCompletion(response) ==
    LET nonEmpty == {i \in DOMAIN response : Len(response[i]) > 0}
        isFirst(i) == i \in nonEmpty /\ \A j \in nonEmpty : i <= j
    IN Flatten([i \in DOMAIN response |->
                   IF isFirst(i) /\ response[i][1] = " " THEN Tail(response[i])
                   ELSE response[i]])

\* C21: the concatenation of the delta frames yielded after the sentinel
\* equals resultSoFar, and at finish that is the concatenation of the
\* response chunks with exactly one leading space removed from the first
\* non-empty chunk if it starts with a space, every other chunk verbatim;
\* empty chunks before the first non-empty one do not use up the first
\* response status.
C21_DeltasAreTrimmedCompletion ==
    /\ inYielded # <<>> => Flatten(DeltaFrames) = inSoFar
    /\ inPc = "returned" =>
           /\ Len(inYielded) = Len(inResponse) + 1
           /\ inSoFar = ExpectedCompletion(inResponse)

\* An empty event, then one that starts with a space: the stream is done.
C21_Witness ==
    /\ inPc = "returned"
    /\ inResponse = <<<<>>, <<" ", "x">>>>
    /\ inSoFar = <<"x">>

(***************************************************************************)
(* UseToolsFunctionCall (docs-components.tsx 236-293): the loop that asks  *)
(* the model, runs the tool it names and appends call and response to the  *)
(* message list, until the model answers with text.                        *)
(***************************************************************************)
MaxRounds == 2

ToolsForEveryName == {"lookup", "ghost"}

\* props.tools: the names it has an entry for.
Tools == {"lookup"}

\* The names a FunctionCall of the model can carry: a tool, or none of them.
CalledNames == {"lookup", "ghost"}

\* Messages and the items of a render result: a tag, the name prop of a
\* FunctionCall or FunctionResponse, and the content.
SystemMessage(content) == [tag |-> "SystemMessage", name |-> "", content |-> content]

UserMessage(content) == [tag |-> "UserMessage", name |-> "", content |-> content]

FunctionCall(name) == [tag |-> "FunctionCall", name |-> name, content |-> ""]

FunctionResponseUnnamed(name, response) ==
    [tag |-> "FunctionResponse", name |-> "", content |-> response]

FunctionResponse(name, response) ==
    [tag |-> "FunctionResponse", name |-> name, content |-> response]

Text(content) == [tag |-> "text", name |-> "", content |-> content]

\* Lines 237-251: the message list before the loop.
InitialMessages(fallback) ==
    <<SystemMessage("agent")>>
        \o (IF fallback THEN <<SystemMessage("fallback")>> ELSE <<>>)
        \o <<UserMessage("query")>>

\* What render(model_response, {stop: el.tag == FunctionCall}) can resolve
\* to: texts and FunctionCall elements (every other element is rendered).
RenderItems == {Text("a")} \cup {FunctionCall(n) : n \in CalledNames}

RenderResults ==
    {<<>>} \cup {<<x>> : x \in RenderItems} \cup {<<x, y>> : x, y \in RenderItems}

\* isElement(x), for an item of a render result.
IsElementItem(x) == x.tag # "text"

FirstIsElementAlways(renderResult) == TRUE

\* Line 262: isElement(renderResult[0]); renderResult[0] of an empty array
\* is undefined, which is not an element.
FirstIsElement(renderResult) == renderResult # <<>> /\ IsElementItem(renderResult[1])

UnexpectedNever(renderResult) == FALSE

\* Line 264.
Unexpected(renderResult) == Len(renderResult) > 1 \/ renderResult[1].tag # "FunctionCall"

JoinFirstItem(renderResult) ==
    IF renderResult = <<>> THEN <<>>
    ELSE <<IF renderResult[1].tag = "text" THEN renderResult[1].content ELSE "[object Object]">>

\* Line 290: renderResult.join(''); an element joins as String(element).
Join(renderResult) ==
    [i \in DOMAIN renderResult |->
        IF renderResult[i].tag = "text" THEN renderResult[i].content ELSE "[object Object]"]

\* The value a tool function gives, and line 282: the response after it failed.
ToolValue == "value"

FailureResponse == "Function called failed with error"

\* What a failing tool call throws or rejects with: a value that has
\* properties (an Error), or null or undefined.
ThrownValues == {"error", "nullish"}

\* Line 282: reading e.message throws a TypeError when e is null or
\* undefined.
CatchThrows(outcome, thrown) == outcome \in {"threw", "rejected"} /\ thrown = "nullish"

\* Lines 277-282: `response` after the tool call ended with outcome; it is
\* left undefined when the catch clause itself throws.
ResponseOf(outcome, thrown) ==
    IF outcome = "fulfilled" THEN ToolValue
    ELSE IF CatchThrows(outcome, thrown) THEN Undefined
    ELSE FailureResponse

\* Line 282: the error the catch clause leaves to be thrown after the
\* finally block.
HeldError(outcome, thrown) == IF CatchThrows(outcome, thrown) THEN PlainError ELSE NoError

\* An entry of the log.
Event(ev, name, content) == [ev |-> ev, name |-> name, content |-> content]

\* Lines 254-260: a ChatCompletion over the message list as it is now is
\* created and its render started.
CallModel(messages) ==
    /\ ufcSent' = Append(ufcSent, messages)
    /\ ufcForwarded' = 0
    /\ ufcPc' = "rendering"

\* Lines 284-285: the FunctionResponse element is created and yielded.
YieldResponse(name, response, log, held) ==
    /\ ufcResponse' = response
    /\ ufcHeld' = held
    /\ ufcYielded' = Append(ufcYielded, FunctionResponse(name, response))
    /\ ufcLog' = Append(log, Event("yieldResponse", name, response))
    /\ ufcPc' = "yieldedResponse"

\* Lines 237-260: from the start to the first model call.
UfcStart ==
    /\ ufcPc = "start"
    /\ ufcMessages' = InitialMessages(ufcFallback)
    /\ CallModel(ufcMessages')
    /\ ufcLog' = Append(ufcLog, Event("model", "", ""))
    /\ UNCHANGED <<ufcFallback, ufcRounds, ufcRenderResult, ufcResponse, ufcYielded,
                   ufcResult, ufcError, ufcHeld>>
    /\ UNCHANGED OutsideLoop

\* Line 260, one step of `yield* render(...)`: a frame of the model's render
\* is passed on to the caller; ufcForwarded counts them.
UfcForward ==
    /\ ufcPc = "rendering"
    /\ ufcForwarded < MaxFrames
    /\ ufcForwarded' = ufcForwarded + 1
    /\ UNCHANGED <<ufcFallback, ufcPc, ufcMessages, ufcRounds, ufcRenderResult, ufcResponse,
                   ufcYielded, ufcSent, ufcLog, ufcResult, ufcError, ufcHeld>>
    /\ UNCHANGED OutsideLoop

\* Line 260: the render of the model response failed with e.
UfcRenderFails(e) ==
    /\ ufcPc = "rendering"
    /\ ufcError' = e
    /\ ufcPc' = "failed"
    /\ UNCHANGED <<ufcFallback, ufcMessages, ufcRounds, ufcForwarded, ufcRenderResult,
                   ufcResponse, ufcYielded, ufcSent, ufcLog, ufcResult, ufcHeld>>
    /\ UNCHANGED OutsideLoop

\* Lines 260-275 and 288-291: the render resolved to renderResult; the body
\* runs to the throw, to `yield functionCall` or to the return.  The code
\* has no limit on the iterations; the model stops starting new ones after
\* MaxRounds.
UfcRendered(renderResult) ==
    /\ ufcPc = "rendering"
    /\ ~(ufcRounds >= MaxRounds /\ FirstIsElement(renderResult) /\ ~Unexpected(renderResult))
    /\ ufcRenderResult' = renderResult
    /\ IF FirstIsElement(renderResult)
       THEN IF Unexpected(renderResult)
            THEN /\ ufcError' = CouldNotBeParsedError
                 /\ ufcPc' = "failed"
                 /\ UNCHANGED <<ufcMessages, ufcYielded, ufcLog, ufcResult>>
            ELSE LET functionCall == renderResult[1]
                 IN /\ ufcMessages' = Append(ufcMessages, functionCall)
                    /\ ufcYielded' = Append(ufcYielded, functionCall)
                    /\ ufcLog' = Append(ufcLog, Event("yieldCall", functionCall.name, ""))
                    /\ ufcPc' = "yieldedCall"
                    /\ UNCHANGED <<ufcResult, ufcError>>
       ELSE /\ ufcResult' = Join(renderResult)
            /\ ufcPc' = "returned"
            /\ UNCHANGED <<ufcMessages, ufcYielded, ufcLog, ufcError>>
    /\ UNCHANGED <<ufcFallback, ufcRounds, ufcForwarded, ufcResponse, ufcSent, ufcHeld>>
    /\ UNCHANGED OutsideLoop

\* Lines 276-285, resumed after `yield functionCall`: props.tools[name].func
\* is read, which throws a TypeError when props.tools has no such entry,
\* and called; the call throws `thrown` at once, or gives a value or
\* promise that is awaited.  What is thrown is caught at line 281, and the
\* finally block yields the FunctionResponse.
UfcCallTool(outcome, thrown) ==
    /\ ufcPc = "yieldedCall"
    /\ LET name == ufcRenderResult[1].name
       IN IF name \notin Tools
          THEN /\ outcome = "threw"
               /\ thrown = "error"
               /\ YieldResponse(name, ResponseOf("missing", thrown),
                                Append(ufcLog, Event("missing", name, "")), NoError)
          ELSE IF outcome = "threw"
               THEN YieldResponse(name, ResponseOf("threw", thrown),
                                  Append(Append(ufcLog, Event("invoke", name, "")),
                                         Event("threw", name, "")),
                                  HeldError("threw", thrown))
               ELSE /\ thrown = "error"
                    /\ ufcLog' = Append(ufcLog, Event("invoke", name, ""))
                    /\ ufcPc' = "calling"
                    /\ UNCHANGED <<ufcResponse, ufcYielded, ufcHeld>>
    /\ UNCHANGED <<ufcFallback, ufcMessages, ufcRounds, ufcForwarded, ufcRenderResult,
                   ufcSent, ufcResult, ufcError>>
    /\ UNCHANGED OutsideLoop

\* Lines 280-285: the awaited tool call settled: fulfilled, or rejected
\* with `thrown`.
UfcToolSettles(outcome, thrown) ==
    /\ ufcPc = "calling"
    /\ outcome = "fulfilled" => thrown = "error"
    /\ LET name == ufcRenderResult[1].name
       IN YieldResponse(name, ResponseOf(outcome, thrown),
                        Append(ufcLog, Event(outcome, name, "")), HeldError(outcome, thrown))
    /\ UNCHANGED <<ufcFallback, ufcMessages, ufcRounds, ufcForwarded, ufcRenderResult,
                   ufcSent, ufcResult, ufcError>>
    /\ UNCHANGED OutsideLoop

\* Lines 286 and 254-260, resumed after `yield functionResponse`: the
\* response is pushed; the finally block has ended, so an error held from
\* the catch clause leaves the generator, and otherwise the next iteration
\* calls the model.
UfcNextRound ==
    /\ ufcPc = "yieldedResponse"
    /\ ufcMessages' = Append(ufcMessages, ufcYielded[Len(ufcYielded)])
    /\ IF ufcHeld # NoError
       THEN /\ ufcError' = ufcHeld
            /\ ufcPc' = "failed"
            /\ UNCHANGED <<ufcRounds, ufcForwarded, ufcSent, ufcLog>>
       ELSE /\ ufcRounds' = ufcRounds + 1
            /\ CallModel(ufcMessages')
            /\ ufcLog' = Append(ufcLog, Event("model", "", ""))
            /\ UNCHANGED ufcError
    /\ UNCHANGED <<ufcFallback, ufcRenderResult, ufcResponse, ufcYielded, ufcResult, ufcHeld>>
    /\ UNCHANGED OutsideLoop

InitFunctionCall ==
    /\ MemoIdle
    /\ InspectorIdle
    /\ PromiseIdle
    /\ InvokeIdle
    /\ ToolIdle
    /\ StopIdle
    /\ CtxIdle
    /\ StreamIdle
    /\ ChatIdle
    /\ ufcFallback \in BOOLEAN
    /\ ufcPc = "start"
    /\ ufcMessages = <<>>
    /\ ufcRounds = 0
    /\ ufcForwarded = 0
    /\ ufcRenderResult = <<>>
    /\ ufcResponse = ""
    /\ ufcYielded = <<>>
    /\ ufcSent = <<>>
    /\ ufcLog = <<>>
    /\ ufcResult = <<>>
    /\ ufcError = NoError
    /\ ufcHeld = NoError

NextFunctionCall ==
    \/ UfcStart
    \/ UfcForward
    \/ \E e \in {FunctionDefinitionsError, PlainError} : UfcRenderFails(e)
    \/ \E renderResult \in RenderResults : UfcRendered(renderResult)
    \/ \E outcome \in {"threw", "pending"}, thrown \in ThrownValues : UfcCallTool(outcome, thrown)
    \/ \E outcome \in {"fulfilled", "rejected"}, thrown \in ThrownValues : UfcToolSettles(outcome, thrown)
    \/ UfcNextRound

SpecFunctionCall == InitFunctionCall /\ [][NextFunctionCall]_vars

\* The FunctionCall frames yielded so far, in order.
CallsYielded == SelectSeq(ufcYielded, LAMBDA f : f.tag = "FunctionCall")

\* C22: at every model call the message list is the initial system message,
\* the fallback system message if a fallback was given, the user query, and
\* then, for each completed round in round order, one FunctionCall
\* immediately followed by the FunctionResponse of the same name; the list
\* of a call extends the list of the call before it.
C22_MessagesAtEveryModelCall ==
    \A k \in DOMAIN ufcSent :
        LET sent == ufcSent[k]
            b == IF ufcFallback THEN 3 ELSE 2
        IN /\ Len(sent) = b + 2 * (k - 1)
           /\ sent[1] = [tag |-> "SystemMessage", name |-> "", content |-> "agent"]
           /\ ufcFallback => sent[2] = [tag |-> "SystemMessage", name |-> "", content |-> "fallback"]
           /\ sent[b] = [tag |-> "UserMessage", name |-> "", content |-> "query"]
           /\ \A r \in 1..(k - 1) :
                  /\ sent[b + 2 * r - 1] = CallsYielded[r]
                  /\ sent[b + 2 * r].tag = "FunctionResponse"
                  /\ sent[b + 2 * r].name = sent[b + 2 * r - 1].name
           /\ k > 1 => IsPrefix(ufcSent[k - 1], sent)

\* A fallback was given and the model is called for the third time, after a
\* round with a tool that is there and one with a tool that is not.
C22_Witness ==
    /\ ufcFallback
    /\ Len(ufcSent) = 3
    /\ Len(ufcSent[3]) = 7
    /\ ufcSent[3][4].name = "lookup"
    /\ ufcSent[3][6].name = "ghost"

\* The number of model calls among the first n entries of the log.
ModelCallsUpTo(n) == Len(SelectSeq(SubSeq(ufcLog, 1, n), LAMBDA e : e.ev = "model"))

\* The entries of the log that record a failed tool call: the tool is not
\* in props.tools, its function threw, or the promise it gave was rejected.
ToolFailures == {i \in DOMAIN ufcLog : ufcLog[i].ev \in {"missing", "threw", "rejected"}}

\* C23: a tool function that throws, or a FunctionCall naming a tool absent
\* from tools, does not fail the render: a FunctionResponse whose content
\* reports the failure is yielded at once, then appended to the messages,
\* and the loop goes on with another model call.
C23_ToolFailureBecomesResponse ==
    \A i \in ToolFailures :
        LET report == [tag |-> "FunctionResponse", name |-> ufcLog[i].name,
                       content |-> "Function called failed with error"]
        IN /\ i < Len(ufcLog)
           /\ ufcLog[i + 1] = [ev |-> "yieldResponse", name |-> ufcLog[i].name,
                               content |-> "Function called failed with error"]
           /\ IF i + 1 = Len(ufcLog)
              THEN /\ ufcPc = "yieldedResponse"
                   /\ ufcError = NoError
                   /\ ufcYielded[Len(ufcYielded)] = report
              ELSE /\ ufcLog[i + 2].ev = "model"
                   /\ LET sent == ufcSent[ModelCallsUpTo(i + 2)]
                      IN sent[Len(sent)] = report

\* The tool invocations so far.
Invocations == SelectSeq(ufcLog, LAMBDA e : e.ev = "invoke")

\* C24: a tool function is invoked only when the render result is exactly
\* one item and that item is a FunctionCall element; a render result whose
\* first item is an element but which has further items fails with
\* ModelOutputCouldNotBeParsedForTool, kind runtime, and the step that
\* fails invokes no tool, appends nothing to the messages and yields
\* nothing.
C24_ToolOnlyForSingleFunctionCall ==
    [][/\ Invocations' # Invocations =>
              /\ Len(ufcRenderResult) = 1
              /\ ufcRenderResult[1].tag = "FunctionCall"
              /\ Invocations' = Append(Invocations, [ev |-> "invoke",
                                                     name |-> ufcRenderResult[1].name,
                                                     content |-> ""])
       /\ (/\ ufcPc = "rendering"
           /\ ufcPc' # "rendering"
           /\ ufcRenderResult' # ufcRenderResult
           /\ Len(ufcRenderResult') > 1
           /\ ufcRenderResult'[1].tag # "text") =>
              /\ ufcPc' = "failed"
              /\ ufcError' = [class |-> "AIJSXError",
                              code |-> "ModelOutputCouldNotBeParsedForTool",
                              kind |-> "runtime"]
              /\ ufcMessages' = ufcMessages
              /\ ufcYielded' = ufcYielded
              /\ ufcLog' = ufcLog]_vars

\* A round with a tool call has completed, and the next render result is a
\* FunctionCall followed by a text: the component has failed.
C24_Witness ==
    /\ ufcPc = "failed"
    /\ ufcRounds = 1
    /\ Len(Invocations) = 1
    /\ Len(ufcRenderResult) = 2
    /\ ufcRenderResult[1].tag = "FunctionCall"
    /\ ufcRenderResult[2].tag = "text"
    /\ ufcError.code = "ModelOutputCouldNotBeParsedForTool"

\* The FunctionCall frames in the log.
CallYields == {i \in DOMAIN ufcLog : ufcLog[i].ev = "yieldCall"}

\* What the log holds after the yield of the FunctionCall at entry i, up to
\* n entries of it.
After(i, n) ==
    [k \in 1..(IF Len(ufcLog) - i < n THEN Len(ufcLog) - i ELSE n) |-> ufcLog[i + k]]

\* log begins as `expected` does: the same events, each but a model call
\* carrying `name`, the response yielded only after the tool call ended.
Follows(log, expected, name) ==
    /\ Len(log) <= Len(expected)
    /\ \A k \in DOMAIN log :
           /\ log[k].ev = expected[k]
           /\ log[k].ev # "model" => log[k].name = name

\* The original statement of C25: every FunctionCall frame is yielded, then
\* its tool is invoked exactly once, then the FunctionResponse frame is
\* yielded after the tool finished and before the next model call.
C25_EveryCallInvokesItsTool ==
    \A i \in CallYields :
        /\ ufcLog[i - 1].ev = "model"
        /\ \E finish \in {"threw", "fulfilled", "rejected"} :
               Follows(After(i, 4), <<"invoke", finish, "yieldResponse", "model">>,
                       ufcLog[i].name)

\* C25: for every FunctionCall frame yielded, the frame is yielded before
\* the tool is invoked; a tool that props.tools has is invoked exactly once
\* and a name it has not invokes nothing; the FunctionResponse frame of the
\* same name is yielded after the tool finished (or was found missing) and
\* before the next model call starts.
C25_CallThenToolThenResponse ==
    \A i \in CallYields :
        /\ ufcLog[i - 1].ev = "model"
        /\ IF ufcLog[i].name = "lookup"
           THEN \E finish \in {"threw", "fulfilled", "rejected"} :
                    Follows(After(i, 4), <<"invoke", finish, "yieldResponse", "model">>,
                            ufcLog[i].name)
           ELSE Follows(After(i, 3), <<"missing", "yieldResponse", "model">>, ufcLog[i].name)

\* A round with a tool that is there and a round with a name that is not
\* have both run to the next model call.
C25_Witness ==
    \E i, j \in CallYields :
        /\ ufcLog[i].name = "lookup" /\ Len(After(i, 4)) = 4
        /\ ufcLog[j].name = "ghost" /\ Len(After(j, 3)) = 3

(***************************************************************************)
(* UseToolsFunctionCall under fairness: the caller keeps pulling frames,   *)
(* every render of a model response settles, every tool call completes,    *)
(* and a model that is asked again and again eventually answers with a     *)
(* result that does not start with an element.                             *)
(***************************************************************************)
RenderSettles ==
    \/ \E renderResult \in RenderResults : UfcRendered(renderResult)
    \/ \E e \in {FunctionDefinitionsError, PlainError} : UfcRenderFails(e)

ModelAnswers ==
    \E renderResult \in RenderResults :
        ~FirstIsElement(renderResult) /\ UfcRendered(renderResult)

ToolCompletes ==
    \/ \E outcome \in {"threw", "pending"}, thrown \in ThrownValues : UfcCallTool(outcome, thrown)
    \/ \E outcome \in {"fulfilled", "rejected"}, thrown \in ThrownValues : UfcToolSettles(outcome, thrown)

FairSpecFunctionCall ==
    /\ SpecFunctionCall
    /\ WF_vars(UfcStart)
    /\ WF_vars(RenderSettles)
    /\ SF_vars(ModelAnswers)
    /\ WF_vars(ToolCompletes)
    /\ WF_vars(UfcNextRound)

\* The render result starts with an element.
StartsWithElement(renderResult) == Len(renderResult) > 0 /\ renderResult[1].tag # "text"

\* C26: the component returns only from a model render, in the first round
\* whose render result does not start with an element, and returns the
\* concatenation of that result; every round that goes on to a tool had a
\* render result starting with an element; and when renders settle, tool
\* calls complete and the model eventually gives such a result, the
\* component ends, by that return or by an error.
C26_ReturnsOnFirstTextResult ==
    /\ [][/\ (ufcPc = "rendering" /\ ufcRenderResult' # ufcRenderResult
                  /\ ~StartsWithElement(ufcRenderResult')) =>
                 /\ ufcPc' = "returned"
                 /\ ufcResult' = [k \in DOMAIN ufcRenderResult' |->
                                     IF ufcRenderResult'[k].tag = "text"
                                     THEN ufcRenderResult'[k].content
                                     ELSE "[object Object]"]
          /\ (ufcPc # "returned" /\ ufcPc' = "returned") =>
                 /\ ufcPc = "rendering"
                 /\ ~StartsWithElement(ufcRenderResult')
          /\ ufcPc' \in {"yieldedCall", "calling", "yieldedResponse"} =>
                 StartsWithElement(ufcRenderResult')]_vars
    /\ <>(ufcPc \in {"returned", "failed"})

\* After as many tool rounds as the model is given, a render result of a
\* text followed by a FunctionCall is returned as their concatenation.
C26_Witness ==
    /\ ufcPc = "returned"
    /\ ufcRounds = MaxRounds
    /\ ufcResult = <<"a", "[object Object]">>

(***************************************************************************)
(* InvokeTool (docs-components.tsx 78-124): the model's tool choice is     *)
(* parsed, checked against toolChoiceSchema and props.tools, and the tool  *)
(* it names is called.                                                     *)
(***************************************************************************)
\* The names props.tools can have entries for.
OwnToolNames == {"lookup", "search"}

\* props.tools is an object: the keys `in` finds that are not its own.
InheritedKeys == {"toString"}

\* The tool names a model output can carry.
ChosenNames == {"lookup", "search", "ghost", "toString"}

\* A model output that is not an object with a nameOfTool.
NonObject(kind) ==
    [kind |-> kind, nameOfTool |-> "", parameters |-> FALSE, responseToUser |-> FALSE]

\* The model outputs: a text that is not JSON, the JSON texts null and 42,
\* and JSON objects with or without each key of toolChoiceSchema; a
\* nameOfTool that is not a string is "<number>", an absent one "<absent>".
Outputs ==
    {NonObject(k) : k \in {"garbage", "null", "number"}}
    \cup [kind : {"object"}, nameOfTool : ChosenNames \cup {"<absent>", "<number>"},
          parameters : BOOLEAN, responseToUser : BOOLEAN]

\* Line 86: JSON.parse(toolChoiceLLMOutput) throws on a text that is not
\* JSON and gives the value otherwise.
JsonParse(output) == [threw |-> output.kind = "garbage", value |-> output]

\* Line 90: toolChoiceSchema.parse(parsedJson) throws unless the value is
\* an object with a string nameOfTool, a record parameters and a string
\* responseToUser (lines 47-51).
SchemaAccepts(value) ==
    /\ value.kind = "object"
    /\ value.nameOfTool \notin {"<absent>", "<number>"}
    /\ value.parameters
    /\ value.responseToUser

\* Line 100: toolChoiceResult.nameOfTool in props.tools.
NameInTools(name, tools) == name \in tools \cup InheritedKeys

\* ErrorCode.ModelHallucinatedTool (lines 101-106).
HallucinatedToolError == AIJSXError(ErrorCode("ModelHallucinatedTool"), "runtime")

\* Line 83: render(props.toolChoice) failed with e.
ItRenderFails(e) ==
    /\ itPc = "start"
    /\ itError' = e
    /\ itPc' = "failed"
    /\ UNCHANGED <<itTools, itOutput, itRendered, itInvoked, itResult>>
    /\ UNCHANGED OutsideInvoke

\* Lines 83-109: render(props.toolChoice) resolved to itOutput; the body
\* runs to a return, a throw or the await of tool.func(...).  A key that
\* props.tools only inherits gives a `tool` without func, and calling it
\* throws a TypeError; a tool's own func throws at once or gives a value or
\* promise.
ItRendered(outcome) ==
    /\ itPc = "start"
    /\ itRendered' = TRUE
    /\ LET parsed == JsonParse(itOutput)
       IN IF parsed.threw
          THEN /\ itError' = CouldNotBeParsedError
               /\ itPc' = "failed"
               /\ UNCHANGED <<itInvoked, itResult>>
          ELSE IF parsed.value.kind = "null"
          THEN /\ itResult' = "fallback"
               /\ itPc' = "returned"
               /\ UNCHANGED <<itInvoked, itError>>
          ELSE IF ~SchemaAccepts(parsed.value)
          THEN /\ itError' = CouldNotBeParsedError
               /\ itPc' = "failed"
               /\ UNCHANGED <<itInvoked, itResult>>
          ELSE IF ~NameInTools(parsed.value.nameOfTool, itTools)
          THEN /\ itError' = HallucinatedToolError
               /\ itPc' = "failed"
               /\ UNCHANGED <<itInvoked, itResult>>
          ELSE IF parsed.value.nameOfTool \notin itTools
          THEN /\ itError' = PlainError
               /\ itPc' = "failed"
               /\ UNCHANGED <<itInvoked, itResult>>
          ELSE /\ itInvoked' = Append(itInvoked, parsed.value.nameOfTool)
               /\ IF outcome = "threw"
                  THEN /\ itError' = PlainError
                       /\ itPc' = "failed"
                  ELSE /\ itPc' = "calling"
                       /\ UNCHANGED itError
               /\ UNCHANGED itResult
    /\ UNCHANGED <<itTools, itOutput>>
    /\ UNCHANGED OutsideInvoke

\* The ways the awaited tool call settles: with a value JSON can write,
\* with one it cannot (a BigInt, an object that contains itself), or with
\* a rejection.
ToolSettlements == {"fulfilled", "unserialisable", "rejected"}

\* Line 119: JSON.stringify(toolResult) throws a TypeError on a value it
\* cannot serialise.
JsonStringifyThrows(outcome) == outcome = "unserialisable"

\* Lines 109-123: the awaited tool call settled.  On a value the returned
\* ChatCompletion is built, JSON.stringify(toolResult) in it; when that
\* throws, or the tool call rejected, InvokeTool fails with the error.
ItToolSettles(outcome) ==
    /\ itPc = "calling"
    /\ IF outcome # "rejected" /\ ~JsonStringifyThrows(outcome)
       THEN /\ itResult' = "ChatCompletion"
            /\ itPc' = "returned"
            /\ UNCHANGED itError
       ELSE /\ itError' = PlainError
            /\ itPc' = "failed"
            /\ UNCHANGED itResult
    /\ UNCHANGED <<itTools, itOutput, itRendered, itInvoked>>
    /\ UNCHANGED OutsideInvoke

InitInvokeTool ==
    /\ MemoIdle
    /\ InspectorIdle
    /\ PromiseIdle
    /\ ToolIdle
    /\ StopIdle
    /\ CtxIdle
    /\ StreamIdle
    /\ ChatIdle
    /\ LoopIdle
    /\ itTools \in SUBSET OwnToolNames
    /\ itOutput \in Outputs
    /\ itRendered = FALSE
    /\ itPc = "start"
    /\ itInvoked = <<>>
    /\ itResult = "none"
    /\ itError = NoError

NextInvokeTool ==
    \/ \E e \in {FunctionDefinitionsError, PlainError} : ItRenderFails(e)
    \/ \E outcome \in {"threw", "pending"} : ItRendered(outcome)
    \/ \E outcome \in ToolSettlements : ItToolSettles(outcome)

SpecInvokeTool == InitInvokeTool /\ [][NextInvokeTool]_vars

\* The model output is JSON that matches toolChoiceSchema.
ValidChoice ==
    /\ itOutput.kind = "object"
    /\ itOutput.nameOfTool \in ChosenNames
    /\ itOutput.parameters
    /\ itOutput.responseToUser

\* C27: InvokeTool invokes a tool at most once, and only the tool named by
\* an output that parses as JSON, matches the schema and names a tool in
\* tools; JSON null returns the fallback; output that is not JSON or does
\* not match the schema fails with ModelOutputCouldNotBeParsedForTool and
\* a name that is not a tool in tools with ModelHallucinatedTool, both of
\* kind runtime; in these three cases no tool is invoked.
C27_InvokeToolOutcomes ==
    /\ Len(itInvoked) <= 1
    /\ itInvoked # <<>> =>
           /\ itRendered
           /\ ValidChoice
           /\ itOutput.nameOfTool \in itTools
           /\ itInvoked = <<itOutput.nameOfTool>>
    /\ (itRendered /\ itOutput.kind = "null") =>
           /\ itPc = "returned"
           /\ itResult = "fallback"
           /\ itInvoked = <<>>
    /\ (itRendered /\ itOutput.kind # "null" /\ ~ValidChoice) =>
           /\ itPc = "failed"
           /\ itError = [class |-> "AIJSXError", code |-> "ModelOutputCouldNotBeParsedForTool",
                         kind |-> "runtime"]
           /\ itInvoked = <<>>
    /\ (itRendered /\ ValidChoice /\ itOutput.nameOfTool \notin itTools) =>
           /\ itPc = "failed"
           /\ itError = [class |-> "AIJSXError", code |-> "ModelHallucinatedTool",
                         kind |-> "runtime"]
           /\ itInvoked = <<>>

(***************************************************************************)
(* memo(<async generator>) of a generator that finishes, under fairness:   *)
(* the generator settles every next() it is given, and a consumer whose    *)
(* caller has not stopped it is resumed: its next() is called again after  *)
(* a frame, and it runs on when the promise it awaits has settled.         *)
(***************************************************************************)
\* The producers that finish: they yield "a", "b", "a", ... and return.
FinishingScripts ==
    {s \in Scripts :
        /\ s.ending = "return"
        /\ s.ret = "r"
        /\ \A i \in DOMAIN s.frames : s.frames[i] = (IF i % 2 = 1 THEN "a" ELSE "b")}

InitMemoGeneratorFinishing ==
    /\ InitMemoGenerator
    /\ script \in FinishingScripts

FairSpecMemoGenerator ==
    /\ InitMemoGeneratorFinishing
    /\ [][NextMemoGenerator]_vars
    /\ WF_vars(GeneratorSettle)
    /\ \A c \in Consumers : WF_vars(ConsumerNext(c))
    /\ \A c \in Consumers : WF_vars(ConsumerResume(c))

\* C28: when the underlying producer finishes, every consumer that keeps
\* pulling eventually completes, having received every frame of the
\* producer; and once the producer has completed, no step of any consumer,
\* a late one included, calls the underlying next() again.
C28_ConsumersComplete ==
    /\ \A c \in Consumers :
           (pc[c] # "absent") ~>
               \/ pc[c] = "returned"
               \/ /\ pc[c] = "done"
                  /\ completed
                  /\ observed[c] = script.frames
    /\ [][completed => genCalls' = genCalls]_vars

\* The producer has completed and the first consumer with it; the second
\* consumer has taken one of the two buffered frames.
C28_Witness ==
    /\ completed
    /\ Len(sink) = 2
    /\ pc[1] = "done"
    /\ pc[2] = "yielded"
    /\ index[2] = 1
    /\ genCalls = 3

(***************************************************************************)
(* memo(<promise>) (memoize.tsx 46-50): one promise is chained on the      *)
(* given one with .then(memo), and the MemoizedPromise component returns   *)
(* that promise to every render.                                           *)
(***************************************************************************)
\* What a promise can resolve to: a string, null, an element, an element
\* that is memoized already, an array holding one element; and the reason a
\* promise is rejected with.
PromiseValues ==
    {[kind |-> k, id |-> 0] : k \in {"leaf", "null", "element", "memoized", "array"}}

Reason == [kind |-> "error", id |-> 0]

PromiseOutcomes ==
    {[state |-> "fulfilled", value |-> v] : v \in PromiseValues}
    \cup {[state |-> "rejected", value |-> Reason]}

\* A promise that does not exist yet, and one that is pending.
NoChain == [state |-> "absent", value |-> Reason]

PendingChain == [state |-> "pending", value |-> Reason]

\* The promises of the model: 0 is memoizedRenderable (line 47).
Chains == 0..NumConsumers

\* memo(value) as lines 11-45 compute it on a settled value: a string,
\* null and a memoized element are returned as they are, an element is
\* wrapped in the Memoized element of the next id, and an array is mapped
\* to the array of its memoized items.
MemoValue(value, lastId) ==
    CASE value.kind = "element" -> [kind |-> "memoized", id |-> lastId + 1]
      [] value.kind = "array" -> [kind |-> "memoizedArray", id |-> lastId + 1]
      [] OTHER -> value

\* The ids memo(value) takes from memoizedId.
IdsTaken(value) == IF value.kind \in {"element", "array"} THEN 1 ELSE 0

PromiseOfRenderFresh(a) == a

\* Line 48: MemoizedPromise = () => memoizedRenderable.
PromiseOfRender(a) == 0

\* Lines 46-49: memo(promise).
MemoPromise ==
    /\ ~mpMemoized
    /\ mpMemoized' = TRUE
    /\ mpChains' = [mpChains EXCEPT ![0] = PendingChain]
    /\ memoizedId' = memoizedId + 1
    /\ mpElementId' = memoizedId + 1
    /\ UNCHANGED <<script, mpOutcome, mpSource, mpThenCalls, mpAwaited, mpSeen>>
    /\ UNCHANGED OutsidePromise

\* The promise handed to memo settles.
PromiseSettles ==
    /\ mpSource = "pending"
    /\ mpSource' = "settled"
    /\ UNCHANGED <<memoizedId, script, mpOutcome, mpMemoized, mpElementId, mpChains,
                   mpThenCalls, mpAwaited, mpSeen>>
    /\ UNCHANGED OutsidePromise

\* Line 47, the reaction of promise p = renderable.then(memo): on
\* fulfilment memo runs on the value and p is fulfilled with its result; a
\* rejection passes to p with the same reason.
ThenJob(p) ==
    /\ mpChains[p].state = "pending"
    /\ mpSource = "settled"
    /\ IF mpOutcome.state = "fulfilled"
       THEN /\ mpChains' = [mpChains EXCEPT ![p] =
                               [state |-> "fulfilled",
                                value |-> MemoValue(mpOutcome.value, memoizedId)]]
            /\ memoizedId' = memoizedId + IdsTaken(mpOutcome.value)
            /\ mpThenCalls' = mpThenCalls + 1
       ELSE /\ mpChains' = [mpChains EXCEPT ![p] =
                               [state |-> "rejected", value |-> mpOutcome.value]]
            /\ UNCHANGED <<memoizedId, mpThenCalls>>
    /\ UNCHANGED <<script, mpOutcome, mpSource, mpMemoized, mpElementId, mpAwaited, mpSeen>>
    /\ UNCHANGED OutsidePromise

\* A render of the MemoizedPromise element: MemoizedPromise() returns a
\* promise, which the renderer awaits.
RenderMemoizedPromise(a) ==
    /\ mpMemoized
    /\ mpAwaited[a] = NoPromise - 1
    /\ LET p == PromiseOfRender(a)
       IN /\ mpAwaited' = [mpAwaited EXCEPT ![a] = p]
          /\ mpChains' = IF mpChains[p].state = "absent"
                         THEN [mpChains EXCEPT ![p] = PendingChain]
                         ELSE mpChains
    /\ UNCHANGED <<memoizedId, script, mpOutcome, mpSource, mpMemoized, mpElementId,
                   mpThenCalls, mpSeen>>
    /\ UNCHANGED OutsidePromise

\* The renderer's await of the promise it was given ends.
AwaiterResumes(a) ==
    /\ mpAwaited[a] \in Chains
    /\ mpSeen[a].state = "absent"
    /\ mpChains[mpAwaited[a]].state \in {"fulfilled", "rejected"}
    /\ mpSeen' = [mpSeen EXCEPT ![a] = mpChains[mpAwaited[a]]]
    /\ UNCHANGED <<memoizedId, script, mpOutcome, mpSource, mpMemoized, mpElementId,
                   mpChains, mpThenCalls, mpAwaited>>
    /\ UNCHANGED OutsidePromise

InitMemoPromise ==
    /\ MemoIdle
    /\ InspectorIdle
    /\ ToolIdle
    /\ StopIdle
    /\ CtxIdle
    /\ StreamIdle
    /\ ChatIdle
    /\ LoopIdle
    /\ InvokeIdle
    /\ mpOutcome \in PromiseOutcomes
    /\ mpSource = "pending"
    /\ mpMemoized = FALSE
    /\ mpElementId = 0
    /\ mpChains = [p \in Chains |-> NoChain]
    /\ mpThenCalls = 0
    /\ mpAwaited = [a \in Consumers |-> NoPromise - 1]
    /\ mpSeen = [a \in Consumers |-> NoChain]

NextMemoPromise ==
    \/ MemoPromise
    \/ PromiseSettles
    \/ \E p \in Chains : ThenJob(p)
    \/ \E a \in Consumers : RenderMemoizedPromise(a)
    \/ \E a \in Consumers : AwaiterResumes(a)

SpecMemoPromise == InitMemoPromise /\ [][NextMemoPromise]_vars

\* The renders whose awaiter has observed an outcome.
Observers == {a \in Consumers : mpSeen[a].state # "absent"}

\* C29: memo of a promise resolves, for every render and every awaiter, to
\* one and the same memoized Node: the resolved value is passed through
\* memo exactly once, whatever the number of renders, and a rejection is
\* observed by all awaiters with the reason of the given promise.
C29_OneMemoizedNodeForAll ==
    /\ mpThenCalls <= 1
    /\ \A a, b \in Observers : mpSeen[a] = mpSeen[b]
    /\ \A a \in Observers :
           /\ mpSeen[a].state = mpOutcome.state
           /\ mpOutcome.state = "rejected" =>
                  mpSeen[a].value = mpOutcome.value /\ mpThenCalls = 0
           /\ mpOutcome.state = "fulfilled" =>
                  /\ mpThenCalls = 1
                  /\ mpOutcome.value.kind \in {"leaf", "null", "memoized"} =>
                         mpSeen[a].value = mpOutcome.value
                  /\ mpOutcome.value.kind = "element" =>
                         mpSeen[a].value = [kind |-> "memoized", id |-> mpElementId + 1]
                  /\ mpOutcome.value.kind = "array" =>
                         mpSeen[a].value = [kind |-> "memoizedArray", id |-> mpElementId + 1]

\* The promise resolved to an element, and two renders have both observed
\* the Memoized element made from it.
C29_Witness ==
    /\ mpOutcome.value.kind = "element"
    /\ Observers = Consumers
    /\ \A a \in Consumers : mpSeen[a] = [state |-> "fulfilled",
                                         value |-> [kind |-> "memoized", id |-> 2]]

\* C30: memo never mutates the node it is given: no step of memo or of a
\* render changes an element object that exists, so the original keeps its
\* tag, props and render; every element memo creates is frozen and has the
\* tag and props of the original; and a render changes the cache of a
\* wrapper and no element.
C30_MemoLeavesElementsAlone ==
    [][/\ \A k \in DOMAIN heap : k \in DOMAIN heap' /\ heap'[k] = heap[k]
       /\ \A w \in DOMAIN heap' \ {Orig} :
              /\ heap'[w].frozen
              /\ heap'[w].tag = heap[Orig].tag
              /\ heap'[w].props = heap[Orig].props
       /\ renderCount' # renderCount =>
              /\ heap' = heap
              /\ wrappers' = wrappers
              /\ \A w \in wrappers : \A c \in DOMAIN memoizedValues[w] :
                     /\ c \in DOMAIN memoizedValues'[w]
                     /\ memoizedValues'[w][c] = memoizedValues[w][c]]_vars

\* The original was memoized and the result rendered twice, filling the
\* cache: the original is as it was and the new element is frozen.
C30_Witness ==
    /\ renderCount >= 2
    /\ \E w \in wrappers :
           /\ DOMAIN memoizedValues[w] # {}
           /\ heap[w].frozen
           /\ heap[w].render = "memoized"
    /\ heap[Orig].render = "render"
    /\ ~heap[Orig].frozen

(***************************************************************************)
(* Inspector (unnamed/part_001 15-88): the terminal inspector records the  *)
(* frames of the debug-tree stream and lets the arrow keys choose the      *)
(* frame to display.                                                       *)
(*                                                                         *)
(* A state is what one render of the component sees: the useInput handler  *)
(* of that render computes the next index from the debugTreeSteps of that  *)
(* render.  The index is number | null, written as a record.               *)
(***************************************************************************)
MaxSteps == 3
MaxInner == 2

\* The pages of the debug-tree stream; the stream may repeat a page.
Pages == {"a", "ab"}

\* The keys useInput reports: ink sets at most one of key.rightArrow and
\* key.leftArrow for a key press.
Keys == {"rightArrow", "leftArrow", "other"}

Null == [isNull |-> TRUE, n |-> 0]
Number(k) == [isNull |-> FALSE, n |-> k]

MathMin(a, b) == IF a <= b THEN a ELSE b
MathMax(a, b) == IF a >= b THEN a ELSE b

\* Lines 44-46: the updater of a right-arrow press.
RightArrow(prevIndex, steps) ==
    IF prevIndex = Null
    THEN Number(Len(steps) - 1)
    ELSE Number(MathMin(Len(steps) - 1, prevIndex.n + 1))

\* Lines 49-51: the updater of a left-arrow press.
LeftArrow(prevIndex, steps) ==
    IF prevIndex = Null
    THEN Number(Len(steps) - 2)
    ELSE Number(MathMax(0, prevIndex.n - 1))

\* Line 55.
debugFrameIndexToUse ==
    IF debugTreeFrameIndex = Null
    THEN Len(debugTreeSteps) - 1
    ELSE debugTreeFrameIndex.n

\* Line 73: the denominator of "Viewing frame i/n".
LastFrameShown == MathMax(0, Len(debugTreeSteps) - 1)

\* Line 79: debugTreeSteps[debugFrameIndexToUse] ?? ''.
CodeShown ==
    IF debugFrameIndexToUse + 1 \in DOMAIN debugTreeSteps
    THEN debugTreeSteps[debugFrameIndexToUse + 1]
    ELSE ""

\* The values the rendering of a memoized node passes to memo: what a
\* component returns (memoize.tsx line 32), what a promise resolves to
\* (line 47), what a generator yields (line 72): a string, an element, an
\* array of two elements.
InnerValues ==
    {[kind |-> "leaf", items |-> 0], [kind |-> "element", items |-> 0],
     [kind |-> "array", items |-> 2]}

RECURSIVE InnerSeqsUpTo(_)
InnerSeqsUpTo(n) ==
    IF n = 0 THEN {<<>>}
    ELSE LET shorter == InnerSeqsUpTo(n - 1)
         IN shorter \cup {Append(q, v) : q \in {t \in shorter : Len(t) = n - 1},
                                         v \in InnerValues}

\* The nodes showInspector is given: a string, null, an element, an element
\* that is memoized already, a promise, an async generator, an array of one
\* or two elements; `inner` holds the values its rendering passes to memo,
\* in order, none for a string or null.
Components ==
    {[kind |-> k, items |-> 0, inner |-> <<>>] : k \in {"leaf", "null"}}
    \cup {[kind |-> k, items |-> 0, inner |-> q] :
              k \in {"element", "memoized", "promise", "generator"},
              q \in InnerSeqsUpTo(MaxInner)}
    \cup {[kind |-> "array", items |-> n, inner |-> q] :
              n \in 1..2, q \in InnerSeqsUpTo(MaxInner)}

\* memoize.tsx lines 11-82: the ids memo(component) takes from memoizedId:
\* one for an element, a promise or a generator, one for each element of
\* an array, none for a leaf, null or an element memoized already.
MemoIds(component) ==
    CASE component.kind \in {"element", "promise", "generator"} -> 1
      [] component.kind = "array" -> component.items
      [] OTHER -> 0

RECURSIVE InnerIds(_, _, _)
\* The ids memo takes for the values after the first `from` up to the
\* first `to` of `values`.
InnerIds(values, from, to) ==
    IF from >= to THEN 0
    ELSE MemoIds(values[from + 1]) + InnerIds(values, from + 1, to)

\* How many of its inner values a component can pass to memo in the run
\* that starts its render: a promise and a generator pass theirs from a
\* later job (memoize.tsx lines 47 and 59-72 follow a promise), an element
\* passes what its component returns as soon as the renderer calls it.
StartsInner(component) ==
    IF component.kind \in {"promise", "generator"} THEN 0 ELSE Len(component.inner)

\* Lines 22-40: the effect, run once after the first render: the render
\* context is created, the component is memoized and the two streams are
\* started, each running to its first await; a renderer that calls
\* components at once passes the first n inner values to memo in this run.
\* Of memo, the ids it takes are followed here.
UseEffect(n) ==
    /\ ~effectRan
    /\ effectRan' = TRUE
    /\ n <= StartsInner(componentToInspect)
    /\ innerMemoized' = n
    /\ memoizedId' = memoizedId + MemoIds(componentToInspect)
                         + InnerIds(componentToInspect.inner, 0, n)
    /\ UNCHANGED <<debugTreeSteps, debugTreeFrameIndex, debugTreeStreamIsDone, componentToInspect>>
    /\ UNCHANGED <<genVars, elemVars, toolVars, stopVars, ctxVars, streamVars, chatVars,
                   loopVars, invokeVars, promiseVars>>

\* Lines 28 and 34, memoize.tsx lines 32, 47 and 72: the streams render the
\* memoized node, and in one run the code memo set up passes the next n
\* values to memo: the result of a component, the value of a promise, a
\* frame of a generator.  The two streams share the render context and the
\* memoized node, so each value is passed once.
MemoInner(n) ==
    /\ effectRan
    /\ ~debugTreeStreamIsDone
    /\ n >= 1
    /\ innerMemoized + n <= Len(componentToInspect.inner)
    /\ innerMemoized' = innerMemoized + n
    /\ memoizedId' = memoizedId
                         + InnerIds(componentToInspect.inner, innerMemoized, innerMemoized + n)
    /\ UNCHANGED <<debugTreeSteps, debugTreeFrameIndex, debugTreeStreamIsDone, componentToInspect,
                   effectRan>>
    /\ UNCHANGED <<genVars, elemVars, toolVars, stopVars, ctxVars, streamVars, chatVars,
                   loopVars, invokeVars, promiseVars>>

\* Lines 28-30: a page of the debug-tree stream arrives.
PushDebugTreeStep(page) ==
    /\ effectRan
    /\ ~debugTreeStreamIsDone
    /\ Len(debugTreeSteps) < MaxSteps
    /\ debugTreeSteps' = Append(debugTreeSteps, page)
    /\ UNCHANGED <<debugTreeFrameIndex, debugTreeStreamIsDone, componentToInspect, effectRan,
                   innerMemoized>>
    /\ UNCHANGED OutsideInspector

\* Line 31: the stream has ended, the node rendered to its end.
SetDebugTreeStreamIsDone ==
    /\ effectRan
    /\ ~debugTreeStreamIsDone
    /\ innerMemoized = Len(componentToInspect.inner)
    /\ debugTreeStreamIsDone' = TRUE
    /\ UNCHANGED <<debugTreeSteps, debugTreeFrameIndex, componentToInspect, effectRan,
                   innerMemoized>>
    /\ UNCHANGED OutsideInspector

\* Lines 42-53: a key press; the handler is subscribed by an effect that
\* runs after the one of lines 22-40.
UseInput(key) ==
    /\ effectRan
    /\ debugTreeFrameIndex' =
           IF key = "rightArrow" THEN RightArrow(debugTreeFrameIndex, debugTreeSteps)
           ELSE IF key = "leftArrow" THEN LeftArrow(debugTreeFrameIndex, debugTreeSteps)
           ELSE debugTreeFrameIndex
    /\ UNCHANGED <<debugTreeSteps, debugTreeStreamIsDone, componentToInspect, effectRan,
                   innerMemoized>>
    /\ UNCHANGED OutsideInspector

\* Lines 15-18: the state of the first render.
InitInspector ==
    /\ memoizedId = 0
    /\ MemoIdle
    /\ ToolIdle /\ StopIdle /\ CtxIdle /\ StreamIdle /\ ChatIdle
    /\ LoopIdle /\ InvokeIdle /\ PromiseIdle
    /\ debugTreeSteps = <<>>
    /\ debugTreeFrameIndex = Null
    /\ debugTreeStreamIsDone = FALSE
    /\ componentToInspect \in Components
    /\ effectRan = FALSE
    /\ innerMemoized = 0

NextInspector ==
    \/ \E n \in 0..MaxInner : UseEffect(n)
    \/ \E n \in 1..MaxInner : MemoInner(n)
    \/ \E page \in Pages : PushDebugTreeStep(page)
    \/ SetDebugTreeStreamIsDone
    \/ \E key \in Keys : UseInput(key)

SpecInspector == InitInspector /\ [][NextInspector]_vars

\* C31: the frame index the Inspector displays is always within
\* 0..max(0, number of recorded frames - 1), for every sequence of arrow key
\* presses interleaved with the arrival of frames.
C31_IndexWithinFrames ==
    debugFrameIndexToUse \in 0..LastFrameShown

(***************************************************************************)
(* AIStream and Defer (unnamed/part_000 98-135): AIStream emits every      *)
(* character of every frame on `value-${index}`, and the Defer element of  *)
(* a position resolves with the first character emitted for that position  *)
(* after it has registered its listener.                                   *)
(*                                                                         *)
(* React calls the Defer components when it renders the elements AIStream  *)
(* returned; the stream resolves its frames as promise jobs.  The order of *)
(* the two is left open.  The rendered node has texts followed by at most  *)
(* one lazy producer whose values grow, so that every frame of the stream  *)
(* extends the one before it.                                              *)
(***************************************************************************)

\* Lines 98-102: React calls Defer for position i, which registers the
\* one-shot listener and returns the pending promise.
Defer(i) ==
    /\ stNode # <<>>
    /\ deferred[i].state = "notCalled"
    /\ deferred' = [deferred EXCEPT ![i].state = "pending"]
    /\ listeners' = listeners \cup {i}
    /\ UNCHANGED <<stNode, stPos, stFin, stCur, stResults, shNext, shPending, shSeen>>
    /\ UNCHANGED OutsideStream

\* Lines 110-124: AIStream has created the stream of a node whose frames
\* grow, and has asked for the first frame.
InitAIStream ==
    /\ InitRenderStream
    /\ OnlyLastGrows(stNode)

NextAIStream ==
    \/ \E i \in 1..2 : ChildAdvance(i)
    \/ HandleFrame
    \/ \E i \in Positions : Defer(i)

SpecAIStream == InitAIStream /\ [][NextAIStream]_vars

\* The producers run to their end, the promise jobs of the stream run, and
\* React calls every Defer component.
FairSpecAIStream ==
    /\ SpecAIStream
    /\ WF_vars(\E i \in 1..2 : ChildAdvance(i))
    /\ WF_vars(HandleFrame)
    /\ \A i \in Positions : WF_vars(Defer(i))

\* The promise of a position is resolved at most once, and with the
\* character the final frame has at that position.
ResolvedAsFinalFrame ==
    \A i \in Positions :
        /\ deferred[i].resolves <= 1
        /\ deferred[i].state = "resolved" =>
               /\ i < Len(Render(stNode))
               /\ deferred[i].value = Render(stNode)[i + 1]

\* C32: for a stream whose frames grow, every position below the length of
\* the final frame eventually resolves, exactly once, to the character of
\* the final frame at that position, whatever the order of the calls of
\* Defer and the arrival of the frames.
C32_EveryPositionResolves ==
    /\ []ResolvedAsFinalFrame
    /\ \A i \in Positions :
           i < Len(Render(stNode)) => <>(deferred[i].state = "resolved")

====
